---- MODULE Spec2Model ----
(***************************************************************************)
(* llm-meter: the usage ledger (LlmMeter), the budget scope (SpendLimit)   *)
(* and the AsyncLocalStorage binding of the "current scope", as a state    *)
(* machine of cooperatively scheduled call chains.                         *)
(*                                                                         *)
(* Units.  Token counts are counted in thousands of tokens, so that        *)
(* (inputTokens / 1000) * inputPer1k is tokens * inputPer1k.  Money is     *)
(* counted in units of 0.0005 USD.  Token counts are integers far below    *)
(* 2^53 and their arithmetic is exact; costUsd is a binary fraction and    *)
(* every JavaScript + - * on it rounds to the significand, which Fl        *)
(* models with MantBits significant bits.                                  *)
(*                                                                         *)
(* There is one LlmMeter, and every SpendLimit is constructed with it      *)
(* (cap({ ..., meter })), as in test/budget.test.js.                       *)
(***************************************************************************)
EXTENDS Integers, Sequences, FiniteSets, TLC

\* ------------------------------------------------------------------ bounds
MantBits == 4
MaxRecords == 2
MaxRuns == 2
MaxChainRecords == 2
MaxLedgerRecords == 3
MaxLedgerRuns == 2
MaxArrayLen == 2
MaxCreates == 3
MaxSharedCreates == 2
MaxPricingOps == 3
MaxClientRuns == 1
MaxNotes == 2
MaxResetRecords == 2
MaxOps == 4
MaxNow == 2
MaxDiskOps == 2
MaxDiskNow == 1
MaxDisturbances == 1
MaxSoloOps == 4
MaxSharedOps == 2
MaxChunks == 2
MaxStreams == 1
MaxStreamCreates == 2

Chains == {"c1", "c2"}
Scopes == {"s1", "s2"}
Providers == {"openai", "anthropic"}

\* the MeterEvent values passed to record
Events ==
  {[model |-> "gpt-4o", inputTokens |-> 1, outputTokens |-> 0, provider |-> "openai"],
   [model |-> "claude-sonnet-4-5", inputTokens |-> 1, outputTokens |-> 1, provider |-> "anthropic"],
   [model |-> "mystery", inputTokens |-> 1, outputTokens |-> 1, provider |-> "openai"]}

PricedEvents == {e \in Events : e.model # "mystery"}

\* the CapOptions values passed to cap
NoLimit == 0 - 1
CapOptions ==
  {[maxCostUsd |-> NoLimit, maxTokens |-> 1],
   [maxCostUsd |-> NoLimit, maxTokens |-> 2],
   [maxCostUsd |-> 5, maxTokens |-> NoLimit],
   [maxCostUsd |-> 40, maxTokens |-> 2]}
LedgerCapOptions ==
  {[maxCostUsd |-> NoLimit, maxTokens |-> 1], [maxCostUsd |-> 5, maxTokens |-> NoLimit]}
ChainCapOptions == {[maxCostUsd |-> NoLimit, maxTokens |-> 1]}

Main == "c1"
ScopeBefore(x, s) == x = "s1" /\ s = "s2"

\* -------------------------------------------------------------- undefined
Undefined == "undefined"

\* ------------------------------------------------- floating point numbers
RECURSIVE BitLen(_)
BitLen(n) == IF n = 0 THEN 0 ELSE 1 + BitLen(n \div 2)

RECURSIVE Pow2(_)
Pow2(k) == IF k = 0 THEN 1 ELSE 2 * Pow2(k - 1)

RoundNat(n) ==
  IF BitLen(n) <= MantBits THEN n
  ELSE LET u == Pow2(BitLen(n) - MantBits)
           q == n \div u
           r == n % u
           half == u \div 2
           up == r > half \/ (r = half /\ q % 2 = 1)
       IN (IF up THEN q + 1 ELSE q) * u

Fl(x) == IF x < 0 THEN 0 - RoundNat(0 - x) ELSE RoundNat(x)

FAdd(a, b) == Fl(a + b)
FSub(a, b) == Fl(a - b)
FMul(a, b) == Fl(a * b)

\* ----------------------------------------------------------------- errors
NoExc == [kind |-> "none", current |-> 0, max |-> 0]
CostLimitExceeded(cur, mx) == [kind |-> "CostLimitExceeded", current |-> cur, max |-> mx]
TokenCapExceeded(cur, mx) == [kind |-> "TokenCapExceeded", current |-> cur, max |-> mx]
UnknownModelError == [kind |-> "UnknownModelError", current |-> 0, max |-> 0]
FnError == [kind |-> "FnError", current |-> 0, max |-> 0]
CacheBackendError == [kind |-> "CacheBackendError", current |-> 0, max |-> 0]
SdkError == [kind |-> "SdkError", current |-> 0, max |-> 0]
LimitKinds == {"CostLimitExceeded", "TokenCapExceeded"}
NoRun == [scope |-> "undefined", outcome |-> "none", err |-> NoExc, checked |-> FALSE]

\* ------------------------------------------------- request values, hashing
\* a JavaScript value: its typeof/kind, String(value) for a scalar, and the entries of
\* an object (in insertion order) or the elements of an array
Null == [t |-> "null", s |-> "null", items |-> <<>>]
Str(x) == [t |-> "string", s |-> x, items |-> <<>>]
Num(x) == [t |-> "number", s |-> x, items |-> <<>>]
Bool(x) == [t |-> "boolean", s |-> x, items |-> <<>>]
Undef == [t |-> "undefined", s |-> "undefined", items |-> <<>>]
Arr(elems) == [t |-> "array", s |-> "", items |-> [i \in DOMAIN elems |-> [k |-> "", x |-> elems[i]]]]
Obj(entries) == [t |-> "object", s |-> "", items |-> entries]

\* the object keys in use, in the order of Array.prototype.sort (UTF-16 code units)
KeyAlphabet == <<"a", "b", "model", "n", "stream">>
CodeUnitRank(k) == CHOOSE i \in 1..Len(KeyAlphabet) : KeyAlphabet[i] = k
CodeUnitLess(j, k) == CodeUnitRank(j) < CodeUnitRank(k)

\* Number.isFinite
IsFinite(v) == v.s \notin {"NaN", "Infinity", "-Infinity"}

\* JSON.stringify of a string without characters to escape
JSONString(x) == "\"" \o x \o "\""

RECURSIVE JoinComma(_)
JoinComma(parts) ==
  IF parts = <<>> THEN ""
  ELSE IF Len(parts) = 1 THEN parts[1]
  ELSE parts[1] \o "," \o JoinComma(Tail(parts))

\* value[k]
Prop(value, k) == value.items[CHOOSE i \in DOMAIN value.items : value.items[i].k = k].x

\* Object.keys(value) and Object.keys(value).sort()
ObjectKeys(value) == [i \in DOMAIN value.items |-> value.items[i].k]
SortedKeys(value) == SortSeq(ObjectKeys(value), CodeUnitLess)

\* an object rendered with its keys in insertion order
RECURSIVE stableStringify_unsorted(_)
stableStringify_unsorted(value) ==
  CASE value.t = "null" -> "null"
    [] value.t = "string" -> JSONString(value.s)
    [] value.t = "number" -> IF IsFinite(value) THEN value.s ELSE JSONString(value.s)
    [] value.t = "boolean" -> value.s
    [] value.t = "undefined" -> JSONString("undefined")
    [] value.t = "array" ->
         "[" \o JoinComma([i \in DOMAIN value.items |->
                              stableStringify_unsorted(value.items[i].x)]) \o "]"
    [] value.t = "object" ->
         LET keys == ObjectKeys(value) IN
         "{" \o JoinComma([i \in DOMAIN keys |->
                   JSONString(keys[i]) \o ":" \o stableStringify_unsorted(Prop(value, keys[i]))])
             \o "}"

RECURSIVE stableStringify(_)
stableStringify(value) ==
  CASE value.t = "null" -> "null"
    [] value.t = "string" -> JSONString(value.s)
    [] value.t = "number" -> IF IsFinite(value) THEN value.s ELSE JSONString(value.s)
    [] value.t = "boolean" -> value.s
    [] value.t = "undefined" -> JSONString("undefined")
    [] value.t = "array" ->
         "[" \o JoinComma([i \in DOMAIN value.items |-> stableStringify(value.items[i].x)]) \o "]"
    [] value.t = "object" ->
         LET keys == SortedKeys(value) IN
         "{" \o JoinComma([i \in DOMAIN keys |->
                   JSONString(keys[i]) \o ":" \o stableStringify(Prop(value, keys[i]))])
             \o "}"

\* sha256(...).digest("hex"), taken to be free of collisions: the digest stands for
\* the text it was computed from
Sha256Hex(text) == "sha256:" \o text

hashRequest(data) == Sha256Hex(stableStringify(data))

\* MemoryCache.makeKey, BoundedMemoryCache.makeKey, DiskCache.makeKey
MemoryCacheMakeKey(request) == hashRequest(request)
BoundedMemoryCacheMakeKey(request) == hashRequest(request)
DiskCacheMakeKey(request) == hashRequest(request)

\* ---------------------------------------------------------------- pricing
PRICING_DB ==
  [m \in {"gpt-4o", "claude-sonnet-4-5"} |->
     IF m = "gpt-4o" THEN [inputPer1k |-> 5, outputPer1k |-> 20]
                     ELSE [inputPer1k |-> 6, outputPer1k |-> 30]]

estimateCostUsd(model, inputTokens, outputTokens) ==
  LET price == PRICING_DB[model]
      inputCost == FMul(inputTokens, price.inputPer1k)
      outputCost == FMul(outputTokens, price.outputPer1k)
  IN FAdd(inputCost, outputCost)

\* ----------------------------------------------------------- UsageCounter
ZeroUsage == [tokens |-> 0, inputTokens |-> 0, outputTokens |-> 0, costUsd |-> 0, calls |-> 0]

\* a counter that is assigned the event instead of added to
CounterAdd_assign(counter, other) == other

CounterAdd(counter, other) ==
  [tokens |-> counter.tokens + other.tokens,
   inputTokens |-> counter.inputTokens + other.inputTokens,
   outputTokens |-> counter.outputTokens + other.outputTokens,
   costUsd |-> FAdd(counter.costUsd, other.costUsd),
   calls |-> counter.calls + other.calls]

ZeroCache == [hitCount |-> 0, missCount |-> 0, usdSaved |-> 0, tokensSaved |-> 0]

\* ------------------------------------------------------------------ state
VARIABLES
  usageState,            \* LlmMeter.usageState
  usageByProviderState,  \* LlmMeter.usageByProviderState (a Map)
  cacheStatsState,       \* LlmMeter.cacheStatsState
  scopes,                \* the SpendLimit objects constructed so far
  alsCurrent,            \* storage.getStore() of the executing context
  ctxStore,              \* the store captured by each chain's pending continuation
  turn,                  \* the chain that is executing, or Undefined
  pc,                    \* "idle", "running", "done" or "failed" per chain
  stack,                 \* the run() invocations each chain is inside of
  exc,                   \* the exception propagating in each chain
  base,                  \* the store each chain was created under
  lastRun,               \* how each chain's most recent run() settled
  made,                  \* history: the record calls that passed pricing, the clears,
                         \* the calls of the cache's makeKey, get and set
  runs,                  \* number of run() invocations started
  cacheBackend,          \* LlmMeter.cache: which backend the meter was constructed with
  cacheMap,              \* the entries of that backend (MemoryCache.cache)
  sdkCalls,              \* number of invocations of the underlying SDK method
  call,                  \* each chain's position inside an instrumented create call
  lastCall,              \* how each chain's most recent create call ended
  creates,               \* number of create calls started
  hashReq,               \* a request value handed to makeKey
  hashAlt,               \* a second request, a reordering of the first
  hashOut,               \* the keys the cache backends derived for the two
  bmcOpts,               \* the options a BoundedMemoryCache was constructed with
  bmcMaxEntries,         \* BoundedMemoryCache.maxEntries
  bmcTtlMs,              \* BoundedMemoryCache.ttlMs
  bmcCache,              \* BoundedMemoryCache.cache, a Map in insertion order
  now,                   \* Date.now()
  bmcLast,               \* the most recent cache operation and what it returned
  bmcHist,               \* history: when each key was last touched and last set
  diskOpts,              \* DiskCache.maxEntries and DiskCache.ttlMs
  diskFiles,             \* the .bin files of DiskCache.cacheDir, by key
  diskOp,                \* the DiskCache operation in progress and its position
  diskLast,              \* how the most recent DiskCache operation ended
  diskCount,             \* operations started, filesystem failures, peer writes and deletions
  diskProcs,             \* the process that is running and the operations of the others
  stream,                \* the iteration of a stream wrapped by meterStream
  pricingDb,             \* PRICING_DB, the module's pricing table
  pricingLast,           \* the most recent pricingFor or defineModel call and its result
  pricingHist            \* history: calls made, the pricing registered by the table
                         \* and by defineModel

meterVars == <<usageState, usageByProviderState, cacheStatsState>>
chainVars == <<alsCurrent, ctxStore, turn, pc, stack, exc, base, lastRun, runs>>
clientVars == <<cacheBackend, cacheMap, sdkCalls, call, lastCall, creates>>
hashVars == <<hashReq, hashAlt, hashOut>>
boundedVars == <<bmcOpts, bmcMaxEntries, bmcTtlMs, bmcCache, now, bmcLast, bmcHist>>
diskVars == <<diskOpts, diskFiles, diskOp, diskLast, diskCount, diskProcs>>
streamVars == <<stream>>
pricingVars == <<pricingDb, pricingLast, pricingHist>>
extVars == <<clientVars, hashVars, boundedVars, diskVars, streamVars, pricingVars>>
vars == <<usageState, usageByProviderState, cacheStatsState, scopes, alsCurrent,
          ctxStore, turn, pc, stack, exc, base, lastRun, made, runs, extVars>>

\* ------------------------------------------------------------- SpendLimit
summary == usageState

SpendLimit(maxCostUsd, maxTokens, meterSummary) ==
  [maxCostUsd |-> maxCostUsd, maxTokens |-> maxTokens, initial |-> meterSummary]

\* a delta that forgets the baseline
currentUsage_noBaseline(s, cur) == cur

\* a delta clamped at zero
currentUsage_clamped(s, cur) ==
  [tokens |-> IF cur.tokens > s.initial.tokens THEN cur.tokens - s.initial.tokens ELSE 0,
   inputTokens |-> IF cur.inputTokens > s.initial.inputTokens
                   THEN cur.inputTokens - s.initial.inputTokens ELSE 0,
   outputTokens |-> IF cur.outputTokens > s.initial.outputTokens
                    THEN cur.outputTokens - s.initial.outputTokens ELSE 0,
   costUsd |-> IF cur.costUsd > s.initial.costUsd
               THEN FSub(cur.costUsd, s.initial.costUsd) ELSE 0,
   calls |-> IF cur.calls > s.initial.calls THEN cur.calls - s.initial.calls ELSE 0]

currentUsage(s, cur) ==
  [tokens |-> cur.tokens - s.initial.tokens,
   inputTokens |-> cur.inputTokens - s.initial.inputTokens,
   outputTokens |-> cur.outputTokens - s.initial.outputTokens,
   costUsd |-> FSub(cur.costUsd, s.initial.costUsd),
   calls |-> cur.calls - s.initial.calls]

\* limits checked tokens first
checkLimits_tokensFirst(s, cur) ==
  LET usage == currentUsage(s, cur) IN
  IF s.maxTokens # NoLimit /\ usage.tokens > s.maxTokens
  THEN TokenCapExceeded(usage.tokens, s.maxTokens)
  ELSE IF s.maxCostUsd # NoLimit /\ usage.costUsd > s.maxCostUsd
  THEN CostLimitExceeded(usage.costUsd, s.maxCostUsd)
  ELSE NoExc

\* limits that already fail when the delta reaches them
checkLimits_atLimit(s, cur) ==
  LET usage == currentUsage(s, cur) IN
  IF s.maxCostUsd # NoLimit /\ usage.costUsd >= s.maxCostUsd
  THEN CostLimitExceeded(usage.costUsd, s.maxCostUsd)
  ELSE IF s.maxTokens # NoLimit /\ usage.tokens >= s.maxTokens
  THEN TokenCapExceeded(usage.tokens, s.maxTokens)
  ELSE NoExc

checkLimits(s, cur) ==
  LET usage == currentUsage(s, cur) IN
  IF s.maxCostUsd # NoLimit /\ usage.costUsd > s.maxCostUsd
  THEN CostLimitExceeded(usage.costUsd, s.maxCostUsd)
  ELSE IF s.maxTokens # NoLimit /\ usage.tokens > s.maxTokens
  THEN TokenCapExceeded(usage.tokens, s.maxTokens)
  ELSE NoExc

\* a getter's result: undefined, or a number
NoNumber == [defined |-> FALSE, value |-> 0]
Number(x) == [defined |-> TRUE, value |-> x]

\* Math.max(0, x)
MathMax0(x) == IF x > 0 THEN x ELSE 0

\* remainingBudget
remainingBudget(s, cur) ==
  IF s.maxCostUsd = NoLimit THEN NoNumber
  ELSE Number(MathMax0(FSub(s.maxCostUsd, currentUsage(s, cur).costUsd)))

\* a remainder that is not clamped at zero
remainingTokens_unclamped(s, cur) ==
  IF s.maxTokens = NoLimit THEN NoNumber
  ELSE Number(s.maxTokens - currentUsage(s, cur).tokens)

\* remainingTokens
remainingTokens(s, cur) ==
  IF s.maxTokens = NoLimit THEN NoNumber
  ELSE Number(MathMax0(s.maxTokens - currentUsage(s, cur).tokens))

\* ---------------------------------------------------- AsyncLocalStorage
\* the scope kept in one module-level variable: the first one constructed
getCurrentCapLike_anyScope ==
  IF "s1" \in DOMAIN scopes THEN "s1" ELSE Undefined

getCurrentCapLike == alsCurrent

\* a nested run that leaves the enclosing scope current
alsEnter_outermost(cap, cur) == IF cur = Undefined THEN cap ELSE cur

\* storage.run(cap, fn): the store while fn runs
alsEnter(cap, cur) == cap

\* a store that is entered and never left (enterWith)
alsExit_notReleased(prev, cur) == cur

\* the store of the caller's continuation once storage.run's promise settles
alsExit(prev, cur) == prev

\* one process-wide variable instead of a store per execution context
alsResume_global(captured, cur) == cur

\* the store put back when a suspended continuation is resumed
alsResume(captured, cur) == captured

\* continuations that start without a store
alsInherit_none(cur) == Undefined

\* the store an async continuation created now will run under
alsInherit(cur) == cur

\* --------------------------------------------------------------- helpers
Top(c) == stack[c][Len(stack[c])]
InBody(c) == IF stack[c] = <<>> THEN TRUE ELSE Top(c).phase = "body"
CanAct(c) ==
  turn = c /\ pc[c] = "running" /\ exc[c] = NoExc /\ InBody(c) /\ call[c].phase = "idle"

TypeOK ==
  /\ usageState.calls \in Nat
  /\ DOMAIN usageByProviderState \subseteq Providers
  /\ DOMAIN scopes \subseteq Scopes
  /\ alsCurrent \in Scopes \cup {Undefined}
  /\ turn \in Chains \cup {Undefined}
  /\ \A c \in Chains : pc[c] \in {"idle", "running", "done", "failed"}

\* no response: undefined
NoResp == [model |-> "", inputTokens |-> 0, outputTokens |-> 0, id |-> 0]
\* the meter as a create call found it
NoStart == [sdkCalls |-> 0, calls |-> 0, tokens |-> 0, hitCount |-> 0, entry |-> NoResp]
\* no create call in progress
NoCall == [phase |-> "idle", req |-> Null, key |-> "", resp |-> NoResp, fromCache |-> FALSE,
           viaPromise |-> FALSE, start |-> NoStart]
NoResult == [outcome |-> "none", req |-> Null, resp |-> NoResp, fromCache |-> FALSE,
             err |-> NoExc, cacheFailed |-> FALSE, start |-> NoStart]

\* a StreamUsageHint, or what extract returns for a chunk without one
NoHint == [given |-> FALSE, model |-> Undefined, inputTokens |-> NoNumber,
           outputTokens |-> NoNumber, totalTokens |-> NoNumber]
Hint(model, inputTokens, outputTokens, totalTokens) ==
  [given |-> TRUE, model |-> model, inputTokens |-> inputTokens,
   outputTokens |-> outputTokens, totalTokens |-> totalTokens]
NoStreamOptions == [provider |-> "", model |-> Undefined]
\* no stream wrapped; src and ended are what the source has given so far, out what the
\* consumer was handed; recorded is history: the events the iteration passed to record
NoStream == [pc |-> "none", src |-> <<>>, ended |-> FALSE, opts |-> NoStreamOptions,
             out |-> <<>>, last |-> NoHint, recorded |-> <<>>, opened |-> 0]
InitStreamOff == stream = NoStream

\* new LlmMeter(): no cache, no instrumented call made
InitClientOff ==
  /\ cacheBackend = "none"
  /\ cacheMap = <<>>
  /\ sdkCalls = 0
  /\ call = [c \in Chains |-> NoCall]
  /\ lastCall = [c \in Chains |-> NoResult]
  /\ creates = 0

InitMeter ==
  /\ usageState = ZeroUsage
  /\ usageByProviderState = <<>>
  /\ cacheStatsState = ZeroCache
  /\ scopes = <<>>
  /\ alsCurrent = Undefined
  /\ ctxStore = [c \in Chains |-> Undefined]
  /\ turn = "c1"
  /\ pc = [c \in Chains |-> IF c = "c1" THEN "running" ELSE "idle"]
  /\ stack = [c \in Chains |-> <<>>]
  /\ exc = [c \in Chains |-> NoExc]
  /\ base = [c \in Chains |-> Undefined]
  /\ lastRun = [c \in Chains |-> NoRun]
  /\ made = [calls |-> 0, tokens |-> 0, clears |-> 0, callers |-> {}, raised |-> FALSE,
             cacheCalls |-> 0]
  /\ runs = 0

\* no key derived yet
NoKeys == [kind |-> "none", memory |-> <<"", "">>, bounded |-> <<"", "">>, disk |-> <<"", "">>,
           rendered |-> <<"", "">>]
InitHashOff ==
  /\ hashReq = Null
  /\ hashAlt = Null
  /\ hashOut = NoKeys

\* ttlMs: left undefined, Infinity, or a number of milliseconds
NoTtl == [given |-> FALSE, finite |-> FALSE, ms |-> 0]
TtlInfinity == [given |-> TRUE, finite |-> FALSE, ms |-> 0]
TtlMs(n) == [given |-> TRUE, finite |-> TRUE, ms |-> n]
\* the keys handed to get and set; "" is the empty string
CacheKeys == {"", "a", "b", "c"}
NoOp == [op |-> "none", key |-> "", found |-> FALSE, value |-> 0, evicted |-> {}]
NoHist == [ops |-> 0,
           touch |-> [k \in CacheKeys |-> 0],
           setAt |-> [k \in CacheKeys |-> 0],
           setVal |-> [k \in CacheKeys |-> 0]]

InitBoundedOff ==
  /\ bmcOpts = [maxEntries |-> 2, ttlMs |-> NoTtl]
  /\ bmcMaxEntries = 1
  /\ bmcTtlMs = NoTtl
  /\ bmcCache = <<>>
  /\ now = 0
  /\ bmcLast = NoOp
  /\ bmcHist = NoHist

\* maxEntries: left undefined, or a number
NoMaxEntries == [given |-> FALSE, n |-> 0]
MaxEntriesOf(n) == [given |-> TRUE, n |-> n]
DiskKeys == {"a", "b", "c"}
TwoKeys == {"a", "b"}
\* file content that v8.deserialize rejects; a value that v8.serialize rejects
Garbage == 0
NotSerializable == -1
NoFile == [present |-> FALSE, mtime |-> 0, content |-> Garbage]
NoFiles == [k \in DiskKeys |-> NoFile]
\* at and newest are history: the time read by get's isExpired, and the newest mtime
\* among the files the operation's prune has removed (-1 when none)
DiskIdle == [name |-> "idle", pc |-> "idle", key |-> "", value |-> 0, todo |-> <<>>,
             withMtime |-> <<>>, found |-> FALSE, failed |-> FALSE, raced |-> FALSE,
             at |-> 0, newest |-> 0 - 1]
NoDiskResult == [name |-> "none", key |-> "", outcome |-> "none", found |-> FALSE,
                 value |-> 0, failed |-> FALSE, raced |-> FALSE, newest |-> 0 - 1]
\* the processes that share a cache directory; at first the first one runs
DiskProcesses == {"p1", "p2"}
OneProcess == [running |-> "p1", parked |-> [p \in DiskProcesses |-> DiskIdle]]
NoDiskCount == [ops |-> 0, faults |-> 0, peer |-> 0]

InitDiskOff ==
  /\ diskOpts = [maxEntries |-> NoMaxEntries, ttlMs |-> NoTtl]
  /\ diskFiles = NoFiles
  /\ diskOp = DiskIdle
  /\ diskLast = NoDiskResult
  /\ diskCount = NoDiskCount
  /\ diskProcs = OneProcess

\* the pricing table as the module defines it: ModelPricing has a provider
BuiltIn ==
  [m \in DOMAIN PRICING_DB |->
     [inputPer1k |-> PRICING_DB[m].inputPer1k, outputPer1k |-> PRICING_DB[m].outputPer1k,
      provider |-> IF m = "gpt-4o" THEN "openai" ELSE "anthropic"]]
NoPricing == [inputPer1k |-> 0, outputPer1k |-> 0, provider |-> Undefined]
NoLookup == [op |-> "none", model |-> "", threw |-> FALSE, price |-> NoPricing]

InitPricing ==
  /\ pricingDb = BuiltIn
  /\ pricingLast = NoLookup
  /\ pricingHist = [ops |-> 0, registered |-> BuiltIn]

Init == InitMeter /\ InitClientOff /\ InitHashOff /\ InitBoundedOff /\ InitDiskOff /\
  InitStreamOff /\ InitPricing

\* ----------------------------------------------------------------- meter
\* LlmMeter.record, its first statements: the usage of one event
usageOf(params) ==
  [tokens |-> params.inputTokens + params.outputTokens,
   inputTokens |-> params.inputTokens,
   outputTokens |-> params.outputTokens,
   costUsd |-> estimateCostUsd(params.model, params.inputTokens, params.outputTokens),
   calls |-> 1]

\* a record that adds to the global counter and skips a provider counter that exists
providerAfter_skipExisting(byProvider, provider, usage) ==
  IF provider \in DOMAIN byProvider THEN byProvider
  ELSE [p \in DOMAIN byProvider \cup {provider} |->
          IF p = provider THEN usage ELSE byProvider[p]]

\* LlmMeter.record: the provider's counter is fetched or created, added to and stored
providerAfter(byProvider, provider, usage) ==
  LET existing == IF provider \in DOMAIN byProvider THEN byProvider[provider] ELSE ZeroUsage
  IN [p \in DOMAIN byProvider \cup {provider} |->
        IF p = provider THEN CounterAdd(existing, usage) ELSE byProvider[p]]

\* a ledger that keeps an event recorded outside every scope out of the summary
RecordPriced_unscopedApart(c, params) ==
  LET usage == usageOf(params)
      cap == getCurrentCapLike
      after == IF cap = Undefined THEN usageState ELSE CounterAdd(usageState, usage)
      err == IF cap = Undefined THEN NoExc ELSE checkLimits(scopes[cap], after)
  IN /\ usageState' = after
     /\ usageByProviderState' =
          providerAfter(usageByProviderState, params.provider, usage)
     /\ exc' = [exc EXCEPT ![c] = err]
     /\ made' = [made EXCEPT !.calls = @ + 1, !.tokens = @ + usage.tokens,
                             !.callers = @ \cup {c}, !.raised = @ \/ err # NoExc]

\* a record that takes the event out again when the scope's check fails
RecordPriced_rollsBack(c, params) ==
  LET usage == usageOf(params)
      cap == getCurrentCapLike
      after == CounterAdd(usageState, usage)
      err == IF cap = Undefined THEN NoExc ELSE checkLimits(scopes[cap], after)
  IN /\ usageState' = IF err = NoExc THEN after ELSE usageState
     /\ usageByProviderState' =
          IF err = NoExc
          THEN providerAfter(usageByProviderState, params.provider, usage)
          ELSE usageByProviderState
     /\ exc' = [exc EXCEPT ![c] = err]
     /\ made' = [made EXCEPT !.calls = @ + 1, !.tokens = @ + usage.tokens,
                             !.callers = @ \cup {c}, !.raised = @ \/ err # NoExc]

\* LlmMeter.record past estimateCostUsd: the counters, then the current scope's check
RecordPriced(c, params) ==
  LET usage == usageOf(params)
      cap == getCurrentCapLike
      after == CounterAdd(usageState, usage)
      err == IF cap = Undefined THEN NoExc ELSE checkLimits(scopes[cap], after)
  IN /\ usageState' = after
     /\ usageByProviderState' =
          providerAfter(usageByProviderState, params.provider, usage)
     /\ exc' = [exc EXCEPT ![c] = err]
     /\ made' = [made EXCEPT !.calls = @ + 1, !.tokens = @ + usage.tokens,
                             !.callers = @ \cup {c}, !.raised = @ \/ err # NoExc]

\* a record that adds the tokens before it prices them
RecordBody_countsFirst(c, params) ==
  IF params.model \notin DOMAIN PRICING_DB
  THEN LET usage == [tokens |-> params.inputTokens + params.outputTokens,
                     inputTokens |-> params.inputTokens,
                     outputTokens |-> params.outputTokens, costUsd |-> 0, calls |-> 1]
       IN /\ usageState' = CounterAdd(usageState, usage)
          /\ usageByProviderState' =
               providerAfter(usageByProviderState, params.provider, usage)
          /\ exc' = [exc EXCEPT ![c] = UnknownModelError]
          /\ UNCHANGED made
  ELSE RecordPriced(c, params)

\* LlmMeter.record: the call itself; estimateCostUsd throws for a model without pricing
RecordBody(c, params) ==
  IF params.model \notin DOMAIN PRICING_DB
  THEN /\ exc' = [exc EXCEPT ![c] = UnknownModelError]
       /\ UNCHANGED <<usageState, usageByProviderState, made>>
  ELSE RecordPriced(c, params)

\* LlmMeter.record called by user code
Record(c, params) ==
  /\ CanAct(c)
  /\ RecordBody(c, params)
  /\ UNCHANGED <<cacheStatsState, scopes, alsCurrent, ctxStore, turn, pc, stack,
                 base, lastRun, runs>>
  /\ UNCHANGED extVars

\* the three assignments of LlmMeter.clear, on the meter's fields
clear_keepsSavings(m) == [m EXCEPT !.usageState = ZeroUsage, !.usageByProviderState = <<>>]
clear(m) ==
  [usageState |-> ZeroUsage, usageByProviderState |-> <<>>, cacheStatsState |-> ZeroCache]

\* LlmMeter.clear called by user code
Clear(c) ==
  /\ CanAct(c)
  /\ usageState # ZeroUsage \/ cacheStatsState # ZeroCache
  /\ LET m == clear([usageState |-> usageState,
                     usageByProviderState |-> usageByProviderState,
                     cacheStatsState |-> cacheStatsState])
     IN /\ usageState' = m.usageState
        /\ usageByProviderState' = m.usageByProviderState
        /\ cacheStatsState' = m.cacheStatsState
  /\ made' = [made EXCEPT !.clears = 1]
  /\ UNCHANGED <<scopes, alsCurrent, ctxStore, turn, pc, stack, exc, base, lastRun, runs>>
  /\ UNCHANGED extVars

\* cap(opts) / new SpendLimit(opts)
Cap(c, s, maxCostUsd, maxTokens) ==
  /\ CanAct(c)
  /\ s \notin DOMAIN scopes
  /\ scopes' = [x \in DOMAIN scopes \cup {s} |->
                  IF x = s THEN SpendLimit(maxCostUsd, maxTokens, summary)
                  ELSE scopes[x]]
  /\ UNCHANGED <<meterVars, chainVars, made>>
  /\ UNCHANGED extVars

\* ------------------------------------------------------------------ run
\* a run that takes a fresh baseline when it starts
RunEnter_rebaselines(c, s) ==
  /\ CanAct(c)
  /\ s \in DOMAIN scopes
  /\ runs' = runs + 1
  /\ stack' = [stack EXCEPT ![c] = Append(@, [scope |-> s, prev |-> alsCurrent, phase |-> "body"])]
  /\ alsCurrent' = alsEnter(s, alsCurrent)
  /\ scopes' = [scopes EXCEPT ![s].initial = summary]
  /\ UNCHANGED <<meterVars, ctxStore, turn, pc, exc, base, lastRun, made>>
  /\ UNCHANGED extVars

\* SpendLimit.run up to the start of fn's body
RunEnter(c, s) ==
  /\ CanAct(c)
  /\ s \in DOMAIN scopes
  /\ runs' = runs + 1
  /\ stack' = [stack EXCEPT ![c] = Append(@, [scope |-> s, prev |-> alsCurrent, phase |-> "body"])]
  /\ alsCurrent' = alsEnter(s, alsCurrent)
  /\ UNCHANGED <<meterVars, scopes, ctxStore, turn, pc, exc, base, lastRun, made>>
  /\ UNCHANGED extVars

\* fn's body completes; `await fn(this)` suspends the chain
FnReturn(c) ==
  /\ CanAct(c)
  /\ stack[c] # <<>>
  /\ stack' = [stack EXCEPT ![c][Len(stack[c])].phase = "returned"]
  /\ ctxStore' = [ctxStore EXCEPT ![c] = alsCurrent]
  /\ turn' = Undefined
  /\ UNCHANGED <<meterVars, scopes, alsCurrent, pc, exc, base, lastRun, made, runs>>
  /\ UNCHANGED extVars

\* run that returns fn's result unchecked
runAfterFn_noCheck(s, cur) == NoExc

\* the outcome of run after fn completed: this.checkLimits(); return result
runAfterFn(s, cur) == checkLimits(s, cur)

\* run that checks the limits in a finally block
runAfterThrow_recheck(s, cur, e) ==
  IF checkLimits(s, cur) # NoExc THEN checkLimits(s, cur) ELSE e

\* the outcome of run after fn raised e
runAfterThrow(s, cur, e) == e

Settle(c, err, checked) ==
  /\ stack' = [stack EXCEPT ![c] = SubSeq(@, 1, Len(@) - 1)]
  /\ exc' = [exc EXCEPT ![c] = err]
  /\ lastRun' = [lastRun EXCEPT ![c] =
                   [scope |-> Top(c).scope,
                    outcome |-> IF err = NoExc THEN "resolved" ELSE "rejected",
                    err |-> err,
                    checked |-> checked]]
  /\ ctxStore' = [ctxStore EXCEPT ![c] = alsExit(Top(c).prev, alsCurrent)]
  /\ turn' = Undefined
  /\ UNCHANGED <<meterVars, scopes, alsCurrent, pc, base, made, runs>>
  /\ UNCHANGED extVars

\* the rest of run's callback after `await fn(this)` resumed
RunComplete(c) ==
  /\ turn = c /\ pc[c] = "running" /\ exc[c] = NoExc
  /\ stack[c] # <<>> /\ Top(c).phase = "returned"
  /\ Settle(c, runAfterFn(scopes[Top(c).scope], summary), TRUE)

\* fn raised or rejected: the failure leaves run
RunReject(c) ==
  /\ turn = c /\ pc[c] = "running" /\ exc[c] # NoExc
  /\ stack[c] # <<>> /\ Top(c).phase = "body"
  /\ Settle(c, runAfterThrow(scopes[Top(c).scope], summary, exc[c]), FALSE)

\* ------------------------------------------------------------ user code
\* user code raises a failure of its own
Throw(c) ==
  /\ CanAct(c)
  /\ stack[c] # <<>>
  /\ exc' = [exc EXCEPT ![c] = FnError]
  /\ UNCHANGED <<meterVars, scopes, alsCurrent, ctxStore, turn, pc, stack, base,
                 lastRun, made, runs>>
  /\ UNCHANGED extVars

\* a try/catch around the failing call or the failing await
Catch(c) ==
  /\ turn = c /\ pc[c] = "running" /\ exc[c] # NoExc /\ InBody(c)
  /\ exc' = [exc EXCEPT ![c] = NoExc]
  /\ UNCHANGED <<meterVars, scopes, alsCurrent, ctxStore, turn, pc, stack, base,
                 lastRun, made, runs>>
  /\ UNCHANGED extVars

\* `await` of something that is not a run: the chain suspends
Await(c) ==
  /\ CanAct(c)
  /\ ctxStore' = [ctxStore EXCEPT ![c] = alsCurrent]
  /\ turn' = Undefined
  /\ UNCHANGED <<meterVars, scopes, alsCurrent, pc, stack, exc, base, lastRun, made, runs>>
  /\ UNCHANGED extVars

\* the event loop resumes a suspended continuation
Resume(c) ==
  /\ turn = Undefined
  /\ pc[c] = "running"
  /\ turn' = c
  /\ alsCurrent' = alsResume(ctxStore[c], alsCurrent)
  /\ UNCHANGED <<meterVars, scopes, ctxStore, pc, stack, exc, base, lastRun, made, runs>>
  /\ UNCHANGED extVars

\* an async function is called and not awaited: a new chain
Fork(c, d) ==
  /\ CanAct(c)
  /\ pc[d] = "idle"
  /\ pc' = [pc EXCEPT ![d] = "running"]
  /\ ctxStore' = [ctxStore EXCEPT ![d] = alsInherit(alsCurrent)]
  /\ base' = [base EXCEPT ![d] = alsCurrent]
  /\ UNCHANGED <<meterVars, scopes, alsCurrent, turn, stack, exc, lastRun, made, runs>>
  /\ UNCHANGED extVars

\* the chain's outermost function returns or fails
Finish(c) ==
  /\ turn = c /\ pc[c] = "running" /\ stack[c] = <<>> /\ call[c].phase = "idle"
  /\ pc' = [pc EXCEPT ![c] = IF exc[c] = NoExc THEN "done" ELSE "failed"]
  /\ turn' = Undefined
  /\ UNCHANGED <<meterVars, scopes, alsCurrent, ctxStore, stack, exc, base, lastRun,
                 made, runs>>
  /\ UNCHANGED extVars

\* ------------------------------------------------------- cache savings
\* LlmMeter.noteCacheHit, LlmMeter.noteCacheMiss on the savings counter
\* a hit that leaves usdSaved alone
noteCacheHit_noCost(stats, tokensSaved, usdSaved) ==
  [stats EXCEPT !.hitCount = @ + 1, !.tokensSaved = @ + tokensSaved]
noteCacheHit(stats, tokensSaved, usdSaved) ==
  [stats EXCEPT !.hitCount = @ + 1,
                !.tokensSaved = @ + tokensSaved,
                !.usdSaved = FAdd(@, usdSaved)]
noteCacheMiss(stats) == [stats EXCEPT !.missCount = @ + 1]

\* the (tokensSaved, usdSaved) pairs user code passes to noteCacheHit
Savings == {[tokensSaved |-> 1, usdSaved |-> 5], [tokensSaved |-> 2, usdSaved |-> 36]}

\* LlmMeter.noteCacheHit called by user code
NoteCacheHit(c, tokensSaved, usdSaved) ==
  /\ CanAct(c)
  /\ cacheStatsState' = noteCacheHit(cacheStatsState, tokensSaved, usdSaved)
  /\ UNCHANGED <<usageState, usageByProviderState, scopes, chainVars, made, extVars>>

\* LlmMeter.noteCacheMiss called by user code
NoteCacheMiss(c) ==
  /\ CanAct(c)
  /\ cacheStatsState' = noteCacheMiss(cacheStatsState)
  /\ UNCHANGED <<usageState, usageByProviderState, scopes, chainVars, made, extVars>>

\* --------------------------------------------------- instrumented client
\* the cache option of new LlmMeter: none, "memory", a user-provided async cache,
\* a user-provided cache whose get and set can fail
Backends == {"none", "memory", "async", "faulty"}

\* the create requests: two deep-equal ones with the keys in different orders and one
\* for a model without pricing
ReqA == Obj(<<[k |-> "model", x |-> Str("claude-sonnet-4-5")], [k |-> "n", x |-> Num("1")]>>)
ReqA2 == Obj(<<[k |-> "n", x |-> Num("1")], [k |-> "model", x |-> Str("claude-sonnet-4-5")]>>)
ReqC == Obj(<<[k |-> "model", x |-> Str("mystery")], [k |-> "n", x |-> Num("1")]>>)
ClientRequests == {ReqA, ReqA2, ReqC}
ClientCapOptions == {[maxCostUsd |-> NoLimit, maxTokens |-> 1], [maxCostUsd |-> NoLimit, maxTokens |-> 2]}

\* the n-th response of the underlying SDK method
SdkResponse(r, n) ==
  [model |-> Prop(r, "model").s, inputTokens |-> 1, outputTokens |-> 1, id |-> n]

\* extractAnthropicUsage and the MeterEvent built from it
ResponseEvent(resp) ==
  [model |-> resp.model, inputTokens |-> resp.inputTokens,
   outputTokens |-> resp.outputTokens, provider |-> "anthropic"]

\* cache.makeKey(request), cache.get(key) of a backend that keeps a map
CacheMakeKey(r) == MemoryCacheMakeKey(r)
CacheLookup_absent(key) == NoResp
\* a lookup that also answers with the response of a call still on its way to set
CacheLookup_coalesced(key) ==
  IF key \in DOMAIN cacheMap THEN cacheMap[key]
  ELSE IF \E d \in Chains : call[d].key = key /\ call[d].phase = "set"
  THEN call[CHOOSE d \in Chains : call[d].key = key /\ call[d].phase = "set"].resp
  ELSE NoResp
CacheLookup(key) == IF key \in DOMAIN cacheMap THEN cacheMap[key] ELSE NoResp

\* whether cache.get / cache.set return a promise, whether they can fail
ReturnsPromise == CASE cacheBackend = "async" -> {TRUE}
                    [] cacheBackend = "faulty" -> BOOLEAN
                    [] OTHER -> {FALSE}
CanFail == IF cacheBackend = "faulty" THEN BOOLEAN ELSE {FALSE}

Suspend(c) ==
  /\ turn' = Undefined
  /\ ctxStore' = [ctxStore EXCEPT ![c] = alsCurrent]

\* a failure leaves create
AbortCall(c, err, cacheFailed) ==
  /\ exc' = [exc EXCEPT ![c] = err]
  /\ call' = [call EXCEPT ![c] = NoCall]
  /\ lastCall' = [lastCall EXCEPT ![c] =
                    [outcome |-> "raised", req |-> call[c].req, resp |-> NoResp,
                     fromCache |-> call[c].fromCache, err |-> err,
                     cacheFailed |-> cacheFailed, start |-> call[c].start]]

\* request.stream === true
isStreaming_never(r) == FALSE
isStreaming(r) ==
  \E i \in DOMAIN r.items : r.items[i].k = "stream" /\ r.items[i].x = Bool("true")

\* MessagesWrapper.create up to the streaming test or, past it, cache.makeKey
CreateCall(c, r) ==
  /\ CanAct(c)
  /\ creates' = creates + 1
  /\ LET viaCache == ~isStreaming(r) /\ cacheBackend # "none"
         key == IF viaCache THEN CacheMakeKey(r) ELSE ""
     IN /\ call' = [call EXCEPT ![c] =
                [phase |-> IF isStreaming(r) THEN "stream"
                           ELSE IF cacheBackend = "none" THEN "sdk" ELSE "get",
                 req |-> r, key |-> key, resp |-> NoResp, fromCache |-> FALSE,
                 viaPromise |-> FALSE,
                 start |-> [sdkCalls |-> sdkCalls, calls |-> summary.calls,
                            tokens |-> summary.tokens,
                            hitCount |-> cacheStatsState.hitCount,
                            entry |-> IF key \in DOMAIN cacheMap THEN cacheMap[key]
                                      ELSE NoResp]]]
        /\ made' = IF viaCache THEN [made EXCEPT !.cacheCalls = @ + 1] ELSE made
  /\ UNCHANGED <<meterVars, scopes, chainVars, cacheBackend, cacheMap, sdkCalls,
                 lastCall, hashVars, boundedVars, diskVars, streamVars, pricingVars>>

\* MessagesWrapper.create: cache.get(key) and the test of what it returned
CacheGet(c) ==
  /\ turn = c /\ call[c].phase = "get"
  /\ \E promise \in ReturnsPromise, fails \in CanFail :
       /\ IF fails
          THEN AbortCall(c, CacheBackendError, TRUE)
          ELSE /\ LET cached == CacheLookup(call[c].key) IN
                  call' = [call EXCEPT ![c].phase = IF cached # NoResp THEN "track" ELSE "miss",
                                       ![c].resp = cached,
                                       ![c].fromCache = cached # NoResp,
                                       ![c].viaPromise = promise]
               /\ UNCHANGED <<exc, lastCall>>
       /\ IF promise THEN Suspend(c) ELSE UNCHANGED <<turn, ctxStore>>
  /\ made' = [made EXCEPT !.cacheCalls = @ + 1]
  /\ UNCHANGED <<meterVars, scopes, alsCurrent, pc, stack, base, lastRun, runs,
                 cacheBackend, cacheMap, sdkCalls, creates, hashVars, boundedVars, diskVars,
                 streamVars, pricingVars>>

\* a create that notes the miss only once the SDK has answered
CallSdk_notesAfter(c, fails) ==
  /\ turn = c /\ call[c].phase \in {"miss", "sdk"}
  /\ cacheStatsState' = IF call[c].phase = "miss" /\ ~fails THEN noteCacheMiss(cacheStatsState)
                        ELSE cacheStatsState
  /\ sdkCalls' = sdkCalls + 1
  /\ IF fails
     THEN AbortCall(c, SdkError, FALSE)
     ELSE /\ call' = [call EXCEPT ![c].phase = IF call[c].phase = "sdk" THEN "track" ELSE "set",
                                  ![c].resp = SdkResponse(call[c].req, sdkCalls + 1)]
          /\ UNCHANGED <<exc, lastCall>>
  /\ \E promise \in (IF call[c].viaPromise THEN {TRUE} ELSE BOOLEAN) :
       IF promise THEN Suspend(c) ELSE UNCHANGED <<turn, ctxStore>>
  /\ UNCHANGED <<usageState, usageByProviderState, scopes, alsCurrent, pc, stack, base,
                 lastRun, runs, made, cacheBackend, cacheMap, creates, hashVars,
                 boundedVars, diskVars, streamVars, pricingVars>>

\* MessagesWrapper.create: noteCacheMiss (with a cache) and the underlying create, which
\* returns a response or fails (throws, or returns a promise that rejects)
CallSdk(c, fails) ==
  /\ turn = c /\ call[c].phase \in {"miss", "sdk"}
  /\ cacheStatsState' = IF call[c].phase = "miss" THEN noteCacheMiss(cacheStatsState)
                        ELSE cacheStatsState
  /\ sdkCalls' = sdkCalls + 1
  /\ IF fails
     THEN AbortCall(c, SdkError, FALSE)
     ELSE /\ call' = [call EXCEPT ![c].phase = IF call[c].phase = "sdk" THEN "track" ELSE "set",
                                  ![c].resp = SdkResponse(call[c].req, sdkCalls + 1)]
          /\ UNCHANGED <<exc, lastCall>>
  /\ \E promise \in (IF call[c].viaPromise THEN {TRUE} ELSE BOOLEAN) :
       IF promise THEN Suspend(c) ELSE UNCHANGED <<turn, ctxStore>>
  /\ UNCHANGED <<usageState, usageByProviderState, scopes, alsCurrent, pc, stack, base,
                 lastRun, runs, made, cacheBackend, cacheMap, creates, hashVars,
                 boundedVars, diskVars, streamVars, pricingVars>>

\* MessagesWrapper.create: cache.set(key, response)
CacheSet(c) ==
  /\ turn = c /\ call[c].phase = "set"
  /\ \E promise \in (IF call[c].viaPromise THEN {TRUE} ELSE ReturnsPromise), fails \in CanFail :
       /\ IF fails
          THEN AbortCall(c, CacheBackendError, TRUE) /\ UNCHANGED cacheMap
          ELSE /\ cacheMap' = [k \in DOMAIN cacheMap \cup {call[c].key} |->
                                 IF k = call[c].key THEN call[c].resp ELSE cacheMap[k]]
               /\ call' = [call EXCEPT ![c].phase = "track"]
               /\ UNCHANGED <<exc, lastCall>>
       /\ IF promise THEN Suspend(c) ELSE UNCHANGED <<turn, ctxStore>>
  /\ made' = [made EXCEPT !.cacheCalls = @ + 1]
  /\ UNCHANGED <<meterVars, scopes, alsCurrent, pc, stack, base, lastRun, runs,
                 cacheBackend, sdkCalls, creates, hashVars, boundedVars, diskVars,
                 streamVars, pricingVars>>

\* a _trackResponse that checks the limits before it notes the hit
TrackResponse_checksFirst(c) ==
  /\ turn = c /\ call[c].phase = "track"
  /\ LET resp == call[c].resp
         params == ResponseEvent(resp)
         cap == getCurrentCapLike
         err == IF cap = Undefined THEN NoExc ELSE checkLimits(scopes[cap], summary)
     IN IF call[c].fromCache
        THEN IF params.model \notin DOMAIN PRICING_DB
             THEN /\ exc' = [exc EXCEPT ![c] = UnknownModelError]
                  /\ UNCHANGED <<meterVars, made>>
             ELSE /\ cacheStatsState' =
                       IF err # NoExc THEN cacheStatsState
                       ELSE noteCacheHit(cacheStatsState,
                                         params.inputTokens + params.outputTokens,
                                         estimateCostUsd(params.model, params.inputTokens,
                                                         params.outputTokens))
                  /\ exc' = [exc EXCEPT ![c] = err]
                  /\ UNCHANGED <<usageState, usageByProviderState, made>>
        ELSE RecordBody(c, params) /\ UNCHANGED cacheStatsState
  /\ call' = [call EXCEPT ![c] = NoCall]
  /\ lastCall' = [lastCall EXCEPT ![c] =
                    [outcome |-> IF exc'[c] = NoExc THEN "returned" ELSE "raised",
                     req |-> call[c].req,
                     resp |-> IF exc'[c] = NoExc THEN call[c].resp ELSE NoResp,
                     fromCache |-> call[c].fromCache, err |-> exc'[c],
                     cacheFailed |-> FALSE, start |-> call[c].start]]
  /\ UNCHANGED <<scopes, alsCurrent, ctxStore, turn, pc, stack, base, lastRun, runs,
                 cacheBackend, cacheMap, sdkCalls, creates, hashVars, boundedVars, diskVars, streamVars, pricingVars>>

\* AnthropicWrapper._trackResponse and the return of create. After record the second
\* getCurrentCapLike()?.checkLimits() sees the state record's own check saw.
TrackResponse(c) ==
  /\ turn = c /\ call[c].phase = "track"
  /\ LET resp == call[c].resp
         params == ResponseEvent(resp)
         cap == getCurrentCapLike
     IN IF call[c].fromCache
        THEN IF params.model \notin DOMAIN PRICING_DB
             THEN /\ exc' = [exc EXCEPT ![c] = UnknownModelError]
                  /\ UNCHANGED <<meterVars, made>>
             ELSE /\ cacheStatsState' =
                       noteCacheHit(cacheStatsState, params.inputTokens + params.outputTokens,
                                    estimateCostUsd(params.model, params.inputTokens,
                                                    params.outputTokens))
                  /\ exc' = [exc EXCEPT ![c] =
                               IF cap = Undefined THEN NoExc
                               ELSE checkLimits(scopes[cap], summary)]
                  /\ UNCHANGED <<usageState, usageByProviderState, made>>
        ELSE RecordBody(c, params) /\ UNCHANGED cacheStatsState
  /\ call' = [call EXCEPT ![c] = NoCall]
  /\ lastCall' = [lastCall EXCEPT ![c] =
                    [outcome |-> IF exc'[c] = NoExc THEN "returned" ELSE "raised",
                     req |-> call[c].req,
                     resp |-> IF exc'[c] = NoExc THEN call[c].resp ELSE NoResp,
                     fromCache |-> call[c].fromCache, err |-> exc'[c],
                     cacheFailed |-> FALSE, start |-> call[c].start]]
  /\ UNCHANGED <<scopes, alsCurrent, ctxStore, turn, pc, stack, base, lastRun, runs,
                 cacheBackend, cacheMap, sdkCalls, creates, hashVars, boundedVars, diskVars, streamVars, pricingVars>>

\* ------------------------------------------------------------ meterStream
\* coerceNumber of a hint's field: a number, or 0 for undefined
coerceNumber(v) == IF v.defined THEN v.value ELSE 0

\* opts.extract(chunk) ?? undefined
extract(chunk) == chunk.usage

\* a loop that keeps the first hint with usage
KeepLast_first(last, hint) ==
  IF ~last.given /\ hint.given
     /\ ( coerceNumber(hint.inputTokens) + coerceNumber(hint.outputTokens) > 0
          \/ coerceNumber(hint.totalTokens) > 0 )
  THEN hint ELSE last

\* if (hint) { ... if (inTok + outTok > 0 || totalTok > 0) last = hint; }
KeepLast(last, hint) ==
  IF hint.given
     /\ ( coerceNumber(hint.inputTokens) + coerceNumber(hint.outputTokens) > 0
          \/ coerceNumber(hint.totalTokens) > 0 )
  THEN hint ELSE last

\* the MeterEvent built from the last hint once the source is exhausted
StreamEvent(last, opts) ==
  [model |-> IF last.model # Undefined THEN last.model
             ELSE IF opts.model # Undefined THEN opts.model ELSE "unknown",
   inputTokens |-> IF last.inputTokens.defined THEN coerceNumber(last.inputTokens)
                   ELSE IF last.totalTokens.defined THEN coerceNumber(last.totalTokens)
                   ELSE 0,
   outputTokens |-> IF last.outputTokens.defined THEN coerceNumber(last.outputTokens) ELSE 0,
   provider |-> opts.provider]

\* the chunks a source stream is made of, with the usage extract finds in each
Chunks ==
  {[delta |-> "hi", usage |-> NoHint],
   [delta |-> "", usage |-> Hint("claude-sonnet-4-5", Number(0), Number(0), NoNumber)],
   [delta |-> "", usage |-> Hint("claude-sonnet-4-5", Number(1), Number(0), NoNumber)],
   [delta |-> "", usage |-> Hint("gpt-4o", Number(1), Number(1), NoNumber)],
   [delta |-> "", usage |-> Hint(Undefined, NoNumber, NoNumber, Number(1))],
   [delta |-> "", usage |-> Hint("gpt-4o", Number(0), NoNumber, Number(1))]}
\* what the source's next() gives: a chunk, or done
SourceDone == [done |-> TRUE, value |-> [delta |-> "", usage |-> NoHint]]
SourceResults == {[done |-> FALSE, value |-> chunk] : chunk \in Chunks} \cup {SourceDone}
StreamOptions ==
  {[provider |-> "openai", model |-> Undefined], [provider |-> "openai", model |-> "gpt-4o"]}
AnthropicStreamOptions == [provider |-> "anthropic", model |-> Undefined]

\* the wrapper meterStream returns for an async iterable
Wrapped(opts) ==
  [pc |-> "ready", src |-> <<>>, ended |-> FALSE, opts |-> opts, out |-> <<>>,
   last |-> NoHint, recorded |-> <<>>, opened |-> stream.opened + 1]

\* meterStream(stream, meter, opts) called by user code; the consumer is about to iterate
MeterStream(c, opts) ==
  /\ CanAct(c)
  /\ stream.pc \notin {"ready", "yielded"}
  /\ stream' = Wrapped(opts)
  /\ UNCHANGED <<meterVars, scopes, chainVars, made, clientVars, hashVars, boundedVars,
                 diskVars, pricingVars>>

\* the consumer asks for the next chunk: the generator runs to its next yield, or past
\* the loop to its end
StreamNext(c, result) ==
  /\ CanAct(c)
  /\ stream.pc \in {"ready", "yielded"}
  /\ IF ~result.done
     THEN LET chunk == result.value
          IN /\ Len(stream.src) < MaxChunks
             /\ stream' = [stream EXCEPT !.src = Append(@, chunk),
                                         !.last = KeepLast(@, extract(chunk)),
                                         !.out = Append(@, chunk),
                                         !.pc = "yielded"]
             /\ UNCHANGED <<usageState, usageByProviderState, exc, made>>
     ELSE LET event == StreamEvent(stream.last, stream.opts)
          IN IF ~stream.last.given \/ (event.inputTokens = 0 /\ event.outputTokens = 0)
             THEN /\ stream' = [stream EXCEPT !.ended = TRUE, !.pc = "done"]
                  /\ UNCHANGED <<usageState, usageByProviderState, exc, made>>
             ELSE /\ RecordBody(c, event)
                  /\ stream' = [stream EXCEPT !.ended = TRUE,
                                              !.recorded = Append(@, event),
                                              !.pc = IF exc'[c] = NoExc THEN "done"
                                                     ELSE "threw"]
  /\ UNCHANGED <<cacheStatsState, scopes, alsCurrent, ctxStore, turn, pc, stack, base,
                 lastRun, runs, clientVars, hashVars, boundedVars, diskVars, pricingVars>>

\* the consumer leaves its loop early: the generator is returned at its yield
StreamReturn(c) ==
  /\ CanAct(c)
  /\ stream.pc \in {"ready", "yielded"}
  /\ stream' = [stream EXCEPT !.pc = "returned"]
  /\ UNCHANGED <<meterVars, scopes, chainVars, made, clientVars, hashVars, boundedVars,
                 diskVars, pricingVars>>

\* the source rejects instead of giving a chunk: for await rethrows
SourceFails(c) ==
  /\ CanAct(c)
  /\ stream.pc \in {"ready", "yielded"}
  /\ stream' = [stream EXCEPT !.pc = "threw"]
  /\ exc' = [exc EXCEPT ![c] = FnError]
  /\ UNCHANGED <<meterVars, scopes, alsCurrent, ctxStore, turn, pc, stack, base, lastRun,
                 runs, made, clientVars, hashVars, boundedVars, diskVars, pricingVars>>

\* MessagesWrapper.create, streaming: the underlying create, whose result is wrapped by
\* meterStream when it is an async iterable and tracked as a response otherwise
CallSdkStreaming(c, iterable) ==
  /\ turn = c /\ call[c].phase = "stream"
  /\ stream.pc \notin {"ready", "yielded"}
  /\ sdkCalls' = sdkCalls + 1
  /\ IF iterable
     THEN /\ stream' = Wrapped(AnthropicStreamOptions)
          /\ call' = [call EXCEPT ![c] = NoCall]
          /\ lastCall' = [lastCall EXCEPT ![c] =
                            [outcome |-> "returned", req |-> call[c].req, resp |-> NoResp,
                             fromCache |-> FALSE, err |-> NoExc, cacheFailed |-> FALSE,
                             start |-> call[c].start]]
     ELSE /\ call' = [call EXCEPT ![c].phase = "track",
                                  ![c].resp = SdkResponse(call[c].req, sdkCalls + 1)]
          /\ UNCHANGED <<stream, lastCall>>
  /\ UNCHANGED <<meterVars, scopes, chainVars, made, cacheBackend, cacheMap, creates,
                 hashVars, boundedVars, diskVars, pricingVars>>

\* one call chain: the ledger and the budget scopes, nested, with every exit of run
Next ==
  \/ \E e \in Events : made.calls < MaxRecords /\ Record(Main, e)
  \/ \E s \in Scopes, o \in CapOptions :
       /\ \A x \in Scopes : ScopeBefore(x, s) => x \in DOMAIN scopes
       /\ Cap(Main, s, o.maxCostUsd, o.maxTokens)
  \/ \E s \in Scopes : runs < MaxRuns /\ RunEnter(Main, s)
  \/ FnReturn(Main)
  \/ RunComplete(Main)
  \/ RunReject(Main)
  \/ Throw(Main)
  \/ Catch(Main)
  \/ Await(Main)
  \/ Resume(Main)
  \/ Finish(Main)

Spec == Init /\ [][Next]_vars

\* one call chain on the ledger: record, clear, and one scope that makes record raise
NextLedger ==
  \/ \E e \in Events : made.calls < MaxLedgerRecords /\ Record(Main, e)
  \/ Clear(Main)
  \/ \E o \in LedgerCapOptions : Cap(Main, "s1", o.maxCostUsd, o.maxTokens)
  \/ runs < MaxLedgerRuns /\ RunEnter(Main, "s1")
  \/ FnReturn(Main)
  \/ RunComplete(Main)
  \/ RunReject(Main)
  \/ Catch(Main)
  \/ Await(Main)
  \/ Resume(Main)
  \/ Finish(Main)

SpecLedger == Init /\ [][NextLedger]_vars

\* several call chains interleaved at their suspension points
NextChains ==
  \/ \E c \in Chains, e \in PricedEvents : made.calls < MaxChainRecords /\ Record(c, e)
  \/ \E c \in Chains, s \in Scopes, o \in ChainCapOptions :
       /\ \A x \in Scopes : ScopeBefore(x, s) => x \in DOMAIN scopes
       /\ Cap(c, s, o.maxCostUsd, o.maxTokens)
  \/ \E c \in Chains, s \in Scopes : runs < MaxRuns /\ RunEnter(c, s)
  \/ \E c \in Chains : FnReturn(c)
  \/ \E c \in Chains : RunComplete(c)
  \/ \E c \in Chains : RunReject(c)
  \/ \E c \in Chains : Await(c)
  \/ \E c \in Chains : Resume(c)
  \/ \E c, d \in Chains : Fork(c, d)
  \/ \E c \in Chains : Finish(c)

SpecChains == Init /\ [][NextChains]_vars

\* several call chains that record, note cache events and clear, no spend scope
NextReset ==
  \/ \E c \in Chains, e \in PricedEvents : made.calls < MaxResetRecords /\ Record(c, e)
  \/ \E c \in Chains, v \in Savings :
       /\ cacheStatsState.hitCount + cacheStatsState.missCount < MaxNotes
       /\ NoteCacheHit(c, v.tokensSaved, v.usdSaved)
  \/ \E c \in Chains :
       /\ cacheStatsState.hitCount + cacheStatsState.missCount < MaxNotes
       /\ NoteCacheMiss(c)
  \/ \E c \in Chains : Clear(c)
  \/ \E c \in Chains : Await(c)
  \/ \E c \in Chains : Resume(c)
  \/ \E c, d \in Chains : Fork(c, d)
  \/ \E c \in Chains : Finish(c)

SpecReset == Init /\ [][NextReset]_vars

\* new LlmMeter({ cache }) and an instrumented client
InitClient ==
  /\ cacheBackend \in Backends
  /\ cacheMap = <<>>
  /\ sdkCalls = 0
  /\ call = [c \in Chains |-> NoCall]
  /\ lastCall = [c \in Chains |-> NoResult]
  /\ creates = 0

\* one call chain making create calls one after another, inside and outside a scope
NextClient ==
  \/ \E r \in ClientRequests : creates < MaxCreates /\ CreateCall(Main, r)
  \/ CacheGet(Main)
  \/ \E fails \in BOOLEAN : CallSdk(Main, fails)
  \/ CacheSet(Main)
  \/ TrackResponse(Main)
  \/ \E o \in ClientCapOptions : Cap(Main, "s1", o.maxCostUsd, o.maxTokens)
  \/ runs < MaxClientRuns /\ RunEnter(Main, "s1")
  \/ FnReturn(Main)
  \/ RunComplete(Main)
  \/ RunReject(Main)
  \/ Catch(Main)
  \/ Resume(Main)
  \/ Finish(Main)

\* streaming and non-streaming requests for one model
ReqS == Obj(<<[k |-> "model", x |-> Str("claude-sonnet-4-5")], [k |-> "stream", x |-> Bool("true")]>>)
ReqN == Obj(<<[k |-> "model", x |-> Str("claude-sonnet-4-5")], [k |-> "stream", x |-> Bool("false")]>>)
StreamRequests == {ReqS, ReqN}

\* new LlmMeter({ cache }) with a cache that may already hold a response under the key
\* of the streaming request, and an instrumented client
InitStream ==
  /\ cacheBackend \in {"none", "memory"}
  /\ cacheMap \in {<<>>, [k \in {CacheMakeKey(ReqS)} |-> SdkResponse(ReqS, 0)]}
  /\ cacheBackend = "none" => cacheMap = <<>>
  /\ sdkCalls = 0
  /\ call = [c \in Chains |-> NoCall]
  /\ lastCall = [c \in Chains |-> NoResult]
  /\ creates = 0
  /\ stream = NoStream

\* one call chain that wraps streams itself or gets them from streaming create calls, and
\* iterates them
NextStream ==
  \/ \E opts \in StreamOptions : stream.opened < MaxStreams /\ MeterStream(Main, opts)
  \/ \E r \in StreamRequests :
       creates < MaxStreamCreates /\ stream.opened < MaxStreams /\ CreateCall(Main, r)
  \/ \E iterable \in BOOLEAN : CallSdkStreaming(Main, iterable)
  \/ CacheGet(Main)
  \/ CallSdk(Main, FALSE)
  \/ CacheSet(Main)
  \/ TrackResponse(Main)
  \/ \E result \in SourceResults : StreamNext(Main, result)
  \/ StreamReturn(Main)
  \/ SourceFails(Main)
  \/ Catch(Main)
  \/ Resume(Main)

InitSpecStream == InitMeter /\ InitStream /\ InitHashOff /\ InitBoundedOff /\ InitDiskOff /\
  InitPricing
SpecStream == InitSpecStream /\ [][NextStream]_vars

InitSpecClient == InitMeter /\ InitClient /\ InitHashOff /\ InitBoundedOff /\ InitDiskOff /\
  InitStreamOff /\ InitPricing
SpecClient == InitSpecClient /\ [][NextClient]_vars

\* a meter whose cache keeps what it is given: "memory" or a promise-returning one
InitClientShared ==
  /\ cacheBackend \in {"memory", "async"}
  /\ cacheMap = <<>>
  /\ sdkCalls = 0
  /\ call = [c \in Chains |-> NoCall]
  /\ lastCall = [c \in Chains |-> NoResult]
  /\ creates = 0

\* create calls started without awaiting the previous one: two call chains on one
\* instrumented client
NextClientShared ==
  \/ \E c \in Chains, r \in ClientRequests : creates < MaxSharedCreates /\ CreateCall(c, r)
  \/ \E c \in Chains : CacheGet(c)
  \/ \E c \in Chains : CallSdk(c, FALSE)
  \/ \E c \in Chains : CacheSet(c)
  \/ \E c \in Chains : TrackResponse(c)
  \/ \E c \in Chains : Catch(c)
  \/ \E c \in Chains : Await(c)
  \/ \E c \in Chains : Resume(c)
  \/ \E c, d \in Chains : Fork(c, d)
  \/ \E c \in Chains : Finish(c)

InitSpecClientShared == InitMeter /\ InitClientShared /\ InitHashOff /\ InitBoundedOff /\
  InitDiskOff /\ InitStreamOff /\ InitPricing
SpecClientShared == InitSpecClientShared /\ [][NextClientShared]_vars

\* ------------------------------------------------------- key derivation
\* the scalars, arrays and nested objects requests are built from
Leaves == {Null, Num("1"), Str("1"), Num("NaN"), Str("NaN"), Undef}

RECURSIVE SeqsUpTo(_, _)
SeqsUpTo(S, n) ==
  IF n = 0 THEN {<<>>}
  ELSE SeqsUpTo(S, n - 1) \cup
       {Append(q, x) : q \in {r \in SeqsUpTo(S, n - 1) : Len(r) = n - 1}, x \in S}

Arrays == {Arr(q) : q \in SeqsUpTo(Leaves, MaxArrayLen) \ {<<>>}}
InnerObjects ==
  UNION {{Obj(<<[k |-> "a", x |-> x], [k |-> "b", x |-> y]>>),
          Obj(<<[k |-> "b", x |-> y], [k |-> "a", x |-> x]>>)} : x \in Leaves, y \in Leaves}
Inner == Leaves \cup Arrays \cup InnerObjects
HashRequests ==
  UNION {{Obj(<<[k |-> "model", x |-> Str("gpt-4o")], [k |-> "n", x |-> v]>>),
          Obj(<<[k |-> "n", x |-> v], [k |-> "model", x |-> Str("gpt-4o")]>>)} : v \in Inner}

\* the orderings of a sequence
PermSeqs(q) ==
  {[i \in DOMAIN q |-> q[f[i]]] :
     f \in {g \in [DOMAIN q -> DOMAIN q] : \A i, j \in DOMAIN q : g[i] = g[j] => i = j}}

\* the values that differ from v only in the insertion order of object keys
RECURSIVE KeyOrders(_), KeyOrdersOfItems(_)
KeyOrdersOfItems(q) ==
  IF q = <<>> THEN {<<>>}
  ELSE {<<[k |-> q[1].k, x |-> y]>> \o rest :
          y \in KeyOrders(q[1].x), rest \in KeyOrdersOfItems(Tail(q))}
KeyOrders(v) ==
  IF v.t = "object"
  THEN UNION {{[v EXCEPT !.items = r] : r \in KeyOrdersOfItems(q)} : q \in PermSeqs(v.items)}
  ELSE IF v.t = "array" THEN {[v EXCEPT !.items = r] : r \in KeyOrdersOfItems(v.items)}
  ELSE {v}

\* the values that differ from v only in the order of the elements of arrays
RECURSIVE ArrayOrders(_), ArrayOrdersOfItems(_)
ArrayOrdersOfItems(q) ==
  IF q = <<>> THEN {<<>>}
  ELSE {<<[k |-> q[1].k, x |-> y]>> \o rest :
          y \in ArrayOrders(q[1].x), rest \in ArrayOrdersOfItems(Tail(q))}
ArrayOrders(v) ==
  IF v.t = "array"
  THEN UNION {{[v EXCEPT !.items = r] : r \in ArrayOrdersOfItems(q)} : q \in PermSeqs(v.items)}
  ELSE IF v.t = "object" THEN {[v EXCEPT !.items = r] : r \in ArrayOrdersOfItems(v.items)}
  ELSE {v}

InitHash ==
  /\ hashReq \in HashRequests
  /\ hashAlt = Null
  /\ hashOut = NoKeys

\* makeKey of the request and of a second request on each backend
MakeKeys(kind, alt) ==
  /\ hashOut.kind = "none"
  /\ hashAlt' = alt
  /\ hashOut' = [kind |-> kind,
                 memory |-> <<MemoryCacheMakeKey(hashReq), MemoryCacheMakeKey(alt)>>,
                 bounded |-> <<BoundedMemoryCacheMakeKey(hashReq), BoundedMemoryCacheMakeKey(alt)>>,
                 disk |-> <<DiskCacheMakeKey(hashReq), DiskCacheMakeKey(alt)>>,
                 rendered |-> <<stableStringify(hashReq), stableStringify(alt)>>]
  /\ UNCHANGED <<meterVars, scopes, chainVars, made, clientVars, hashReq,
                 boundedVars, diskVars, streamVars, pricingVars>>

MakeKeyOfKeyReordering == \E alt \in KeyOrders(hashReq) : MakeKeys("keys", alt)
MakeKeyOfArrayReordering == \E alt \in ArrayOrders(hashReq) : MakeKeys("array", alt)

NextHash ==
  \/ MakeKeyOfKeyReordering
  \/ MakeKeyOfArrayReordering

InitSpecHash == InitMeter /\ InitClientOff /\ InitHash /\ InitBoundedOff /\ InitDiskOff /\
  InitStreamOff /\ InitPricing
SpecHash == InitSpecHash /\ [][NextHash]_vars

\* ------------------------------------------------------ BoundedMemoryCache
\* A cache used directly through get, set and clear. opts.maxEntries is given in
\* halves, so that 5 stands for 2.5; times are in milliseconds.
MaxEntriesOptions == {-1, 5}
TtlOptions == {NoTtl, TtlInfinity, TtlMs(0), TtlMs(1)}

\* Math.max(1, Math.floor(n)), n in halves
CoerceMaxEntries(halves) == IF halves \div 2 > 1 THEN halves \div 2 ELSE 1

NeverExpires == [set |-> FALSE, at |-> 0]
ExpiresAt(t) == [set |-> TRUE, at |-> t]

\* Map.has, Map.get, Map.delete on a Map kept as the sequence of its entries
MapHas(cache, key) == \E i \in 1..Len(cache) : cache[i].key = key
MapGet(cache, key) == cache[CHOOSE i \in 1..Len(cache) : cache[i].key = key]
MapDelete(cache, key) == SelectSeq(cache, LAMBDA e : e.key # key)
MapKeys(cache) == {cache[i].key : i \in 1..Len(cache)}

\* expiresAt !== undefined && Date.now() > entry.expiresAt
bmcExpired_atInstant(entry, t) == entry.expiresAt.set /\ t >= entry.expiresAt.at
bmcExpired(entry, t) == entry.expiresAt.set /\ t > entry.expiresAt.at

\* get's delete followed by set of the same entry
bmcBump(cache, key, entry) == Append(MapDelete(cache, key), entry)

\* a loop that drops the expired entries before it counts
RECURSIVE EvictFront(_, _)
EvictFront(cache, maxEntries) ==
  IF Len(cache) > maxEntries /\ Head(cache).key # ""
  THEN EvictFront(Tail(cache), maxEntries)
  ELSE cache
bmcEvict_purgesExpired(cache, maxEntries) ==
  EvictFront(SelectSeq(cache, LAMBDA e : ~(e.expiresAt.set /\ now > e.expiresAt.at)),
             maxEntries)

\* set's loop: while over maxEntries, delete the first key unless it is falsy
RECURSIVE bmcEvict(_, _)
bmcEvict(cache, maxEntries) ==
  IF Len(cache) > maxEntries /\ Head(cache).key # ""
  THEN bmcEvict(Tail(cache), maxEntries)
  ELSE cache

\* new BoundedMemoryCache(opts)
InitBounded ==
  /\ bmcOpts \in [maxEntries : MaxEntriesOptions, ttlMs : TtlOptions]
  /\ bmcMaxEntries = CoerceMaxEntries(bmcOpts.maxEntries)
  /\ bmcTtlMs = bmcOpts.ttlMs
  /\ bmcCache = <<>>
  /\ now = 0
  /\ bmcLast = NoOp
  /\ bmcHist = NoHist

BoundedFrame ==
  UNCHANGED <<meterVars, scopes, chainVars, made, clientVars, hashVars, diskVars, streamVars, pricingVars>>

\* BoundedMemoryCache.get(key)
BmcGet(key) ==
  /\ bmcHist.ops < MaxOps
  /\ IF ~MapHas(bmcCache, key)
     THEN /\ bmcCache' = bmcCache
          /\ bmcLast' = [NoOp EXCEPT !.op = "get", !.key = key]
          /\ bmcHist' = [bmcHist EXCEPT !.ops = @ + 1]
     ELSE LET entry == MapGet(bmcCache, key) IN
          IF bmcExpired(entry, now)
          THEN /\ bmcCache' = MapDelete(bmcCache, key)
               /\ bmcLast' = [NoOp EXCEPT !.op = "get", !.key = key]
               /\ bmcHist' = [bmcHist EXCEPT !.ops = @ + 1]
          ELSE /\ bmcCache' = bmcBump(bmcCache, key, entry)
               /\ bmcLast' = [NoOp EXCEPT !.op = "get", !.key = key,
                                          !.found = TRUE, !.value = entry.value]
               /\ bmcHist' = [bmcHist EXCEPT !.ops = @ + 1, !.touch[key] = bmcHist.ops + 1]
  /\ UNCHANGED <<bmcOpts, bmcMaxEntries, bmcTtlMs, now>>
  /\ BoundedFrame

\* BoundedMemoryCache.set(key, value)
BmcSet(key, value) ==
  /\ bmcHist.ops < MaxOps
  /\ LET expiresAt == IF bmcTtlMs.given /\ bmcTtlMs.finite
                      THEN ExpiresAt(now + bmcTtlMs.ms) ELSE NeverExpires
         deleted == IF MapHas(bmcCache, key) THEN MapDelete(bmcCache, key) ELSE bmcCache
         inserted == Append(deleted, [key |-> key, value |-> value, expiresAt |-> expiresAt])
     IN /\ bmcCache' = bmcEvict(inserted, bmcMaxEntries)
        /\ bmcLast' = [NoOp EXCEPT !.op = "set", !.key = key, !.value = value,
                                   !.evicted = MapKeys(inserted) \ MapKeys(bmcCache')]
  /\ bmcHist' = [bmcHist EXCEPT !.ops = @ + 1, !.touch[key] = bmcHist.ops + 1,
                                !.setAt[key] = now, !.setVal[key] = value]
  /\ UNCHANGED <<bmcOpts, bmcMaxEntries, bmcTtlMs, now>>
  /\ BoundedFrame

\* BoundedMemoryCache.clear()
BmcClear ==
  /\ bmcHist.ops < MaxOps
  /\ bmcCache # <<>>
  /\ bmcCache' = <<>>
  /\ bmcLast' = [NoOp EXCEPT !.op = "clear"]
  /\ bmcHist' = [bmcHist EXCEPT !.ops = @ + 1]
  /\ UNCHANGED <<bmcOpts, bmcMaxEntries, bmcTtlMs, now>>
  /\ BoundedFrame

\* a millisecond passes
Tick(bound) ==
  /\ now < bound
  /\ now' = now + 1
  /\ UNCHANGED <<bmcOpts, bmcMaxEntries, bmcTtlMs, bmcCache, bmcLast, bmcHist>>
  /\ BoundedFrame

\* the value of the n-th operation, as in set("a", 1), set("b", 2), set("c", 3)
NextBounded ==
  \/ \E k \in CacheKeys : BmcGet(k)
  \/ \E k \in CacheKeys : BmcSet(k, bmcHist.ops + 1)
  \/ BmcClear
  \/ Tick(MaxNow)

InitSpecBounded == InitMeter /\ InitClientOff /\ InitHashOff /\ InitBounded /\ InitDiskOff /\
  InitStreamOff /\ InitPricing
SpecBounded == InitSpecBounded /\ [][NextBounded]_vars

\* --------------------------------------------------------------- DiskCache
\* One process uses a DiskCache through get, set and clear, one filesystem call per
\* step. Any filesystem call can fail, and a peer process deletes and rewrites files
\* of the directory between the steps.
DiskOptions ==
  {[maxEntries |-> NoMaxEntries, ttlMs |-> NoTtl],
   [maxEntries |-> MaxEntriesOf(1), ttlMs |-> TtlMs(0)]}
DiskValues == {1, NotSerializable}
PeerContents == {Garbage, 2}

\* whether a throwing call is inside a try block whose catch ends the failure; the
\* sites are statSync in isExpired and prune, unlinkSync, readFileSync with
\* v8.deserialize, v8.serialize with writeFileSync, readdirSync
Guarded_readOutsideTry(site) == site # "read"
Guarded(site) == site \in {"stat", "unlink", "read", "write", "readdir"}

\* the orders in which readdirSync can list the files present
Listings ==
  LET present == {k \in DiskKeys : diskFiles[k].present}
      n == Cardinality(present)
  IN {q \in [1..n -> present] : \A i, j \in 1..n : q[i] = q[j] => i = j}

DiskExpired_atLimit(mtime) ==
  diskOpts.ttlMs.given /\ diskOpts.ttlMs.finite /\ now - mtime >= diskOpts.ttlMs.ms

\* Date.now() - stat.mtimeMs > this.ttlMs
DiskExpired(mtime) ==
  diskOpts.ttlMs.given /\ diskOpts.ttlMs.finite /\ now - mtime > diskOpts.ttlMs.ms

\* Array.prototype.sort((a, b) => a.m - b.m), which is stable
RECURSIVE InsertByMtime_newestFirst(_, _)
InsertByMtime_newestFirst(sorted, e) ==
  IF sorted = <<>> THEN <<e>>
  ELSE IF Head(sorted).m >= e.m
       THEN <<Head(sorted)>> \o InsertByMtime_newestFirst(Tail(sorted), e)
  ELSE <<e>> \o sorted
RECURSIVE InsertByMtime(_, _)
InsertByMtime(sorted, e) ==
  IF sorted = <<>> THEN <<e>>
  ELSE IF Head(sorted).m <= e.m THEN <<Head(sorted)>> \o InsertByMtime(Tail(sorted), e)
  ELSE <<e>> \o sorted
RECURSIVE SortByMtime(_)
SortByMtime(q) ==
  IF q = <<>> THEN <<>>
  ELSE InsertByMtime(SortByMtime(SubSeq(q, 1, Len(q) - 1)), q[Len(q)])

\* filesystem failures and peer actions happen while the budget lasts
Disturbable == diskCount.faults + diskCount.peer < MaxDisturbances
FaultChoices == IF Disturbable THEN BOOLEAN ELSE {FALSE}
CountFault(fault) ==
  diskCount' = [diskCount EXCEPT !.faults = IF fault THEN @ + 1 ELSE @]

\* the operation moves to op.pc, or returns, or lets the exception out
Advance(op) ==
  IF op.pc \in {"return", "raise"}
  THEN /\ diskOp' = DiskIdle
       /\ diskLast' = [name |-> op.name, key |-> op.key,
                       outcome |-> IF op.pc = "raise" THEN "raised" ELSE "returned",
                       found |-> op.found, value |-> op.value,
                       failed |-> op.failed, raced |-> op.raced, newest |-> op.newest]
  ELSE /\ diskOp' = op
       /\ diskLast' = diskLast

\* what a throwing call at a site leads to: the catch block's continuation, or out
Caught(site, op) ==
  IF Guarded(site) THEN [op EXCEPT !.failed = TRUE]
  ELSE [op EXCEPT !.failed = TRUE, !.pc = "raise"]

DiskFrame ==
  UNCHANGED <<meterVars, scopes, chainVars, made, clientVars, hashVars, boundedVars,
              streamVars, pricingVars, diskProcs>>

Unlinked(k) == [diskFiles EXCEPT ![k] = NoFile]

\* get(key) is called
DiskGet(k) ==
  /\ diskOp.name = "idle"
  /\ diskOp' = [DiskIdle EXCEPT !.name = "get", !.pc = "get.exists", !.key = k]
  /\ diskCount' = [diskCount EXCEPT !.ops = @ + 1]
  /\ UNCHANGED <<diskOpts, diskFiles, diskLast>>
  /\ DiskFrame

\* get: fs.existsSync(p), which reports false when it fails
GetExists(fault) ==
  /\ diskOp.pc = "get.exists"
  /\ LET exists == diskFiles[diskOp.key].present /\ ~fault
         op == [diskOp EXCEPT !.failed = fault]
     IN Advance([op EXCEPT !.pc = IF ~exists THEN "return"
                                  ELSE IF diskOpts.ttlMs.given THEN "get.stat"
                                  ELSE "get.read"])
  /\ CountFault(fault)
  /\ UNCHANGED <<diskOpts, diskFiles>>
  /\ DiskFrame

\* get: isExpired(p), whose catch reports the file expired
GetStat(fault) ==
  /\ diskOp.pc = "get.stat"
  /\ LET file == diskFiles[diskOp.key]
         throws == fault \/ ~file.present
     IN IF throws
        THEN LET op == Caught("stat", diskOp)
             IN Advance(IF op.pc = "raise" THEN op ELSE [op EXCEPT !.pc = "get.unlink"])
        ELSE Advance([diskOp EXCEPT !.at = now,
                                    !.pc = IF DiskExpired(file.mtime) THEN "get.unlink"
                                           ELSE "get.read"])
  /\ CountFault(fault)
  /\ UNCHANGED <<diskOpts, diskFiles>>
  /\ DiskFrame

\* get: fs.unlinkSync(p) of an expired file, then return undefined
GetUnlink(fault) ==
  /\ diskOp.pc = "get.unlink"
  /\ LET throws == fault \/ ~diskFiles[diskOp.key].present
     IN IF throws
        THEN LET op == Caught("unlink", diskOp)
             IN /\ Advance(IF op.pc = "raise" THEN op ELSE [op EXCEPT !.pc = "return"])
                /\ diskFiles' = diskFiles
        ELSE /\ Advance([diskOp EXCEPT !.pc = "return"])
             /\ diskFiles' = Unlinked(diskOp.key)
  /\ CountFault(fault)
  /\ UNCHANGED diskOpts
  /\ DiskFrame

\* the directory after fs.readFileSync(p): as it was
AfterRead_touched(files, k) == [files EXCEPT ![k].mtime = now]
AfterRead(files, k) == files

\* get: fs.readFileSync(p) and v8.deserialize(buf)
GetRead(fault) ==
  /\ diskOp.pc = "get.read"
  /\ LET file == diskFiles[diskOp.key]
         throws == fault \/ ~file.present \/ file.content = Garbage
     IN IF throws
        THEN LET op == Caught("read", diskOp)
             IN Advance(IF op.pc = "raise" THEN op ELSE [op EXCEPT !.pc = "return"])
        ELSE Advance([diskOp EXCEPT !.pc = "return", !.found = TRUE,
                                    !.value = file.content])
  /\ diskFiles' = IF fault \/ ~diskFiles[diskOp.key].present THEN diskFiles
                  ELSE AfterRead(diskFiles, diskOp.key)
  /\ CountFault(fault)
  /\ UNCHANGED diskOpts
  /\ DiskFrame

\* set(key, value) is called
DiskSet(k, value) ==
  /\ diskOp.name = "idle"
  /\ diskOp' = [DiskIdle EXCEPT !.name = "set", !.pc = "set.write", !.key = k,
                                !.value = value]
  /\ diskCount' = [diskCount EXCEPT !.ops = @ + 1]
  /\ UNCHANGED <<diskOpts, diskFiles, diskLast>>
  /\ DiskFrame

\* set: v8.serialize(value) and fs.writeFileSync(p, buf); a failed write leaves the
\* file as it was or truncated
SetWrite(fault, truncated) ==
  /\ diskOp.pc = "set.write"
  /\ LET throws == fault \/ diskOp.value = NotSerializable
     IN IF throws
        THEN LET op == Caught("write", diskOp)
             IN /\ Advance(IF op.pc = "raise" THEN op ELSE [op EXCEPT !.pc = "return"])
                /\ diskFiles' = IF truncated /\ diskOp.value # NotSerializable
                                THEN [diskFiles EXCEPT ![diskOp.key] =
                                        [present |-> TRUE, mtime |-> now, content |-> Garbage]]
                                ELSE diskFiles
        ELSE /\ Advance([diskOp EXCEPT !.pc = "prune.list"])
             /\ diskFiles' = [diskFiles EXCEPT ![diskOp.key] =
                                [present |-> TRUE, mtime |-> now, content |-> diskOp.value]]
  /\ CountFault(fault)
  /\ UNCHANGED diskOpts
  /\ DiskFrame

\* the operation, having removed file f
Removing(f) ==
  [diskOp EXCEPT !.newest = IF diskFiles[f].mtime > @ THEN diskFiles[f].mtime ELSE @]

\* where prune goes after its TTL purge
AfterTtlPurge(op) ==
  IF op.todo # <<>> THEN [op EXCEPT !.pc = "prune.ttlStat"]
  ELSE [op EXCEPT !.pc = IF diskOpts.maxEntries.given THEN "prune.maxList" ELSE "return"]

\* prune: const files = this.listCacheFiles()
PruneList(fault, listing) ==
  /\ diskOp.pc = "prune.list"
  /\ LET op == IF fault THEN Caught("readdir", diskOp) ELSE [diskOp EXCEPT !.todo = listing]
     IN Advance(IF op.pc = "raise" THEN op
                ELSE IF diskOpts.ttlMs.given THEN AfterTtlPurge(op)
                ELSE AfterTtlPurge([op EXCEPT !.todo = <<>>]))
  /\ CountFault(fault)
  /\ UNCHANGED <<diskOpts, diskFiles>>
  /\ DiskFrame

\* prune, TTL purge: isExpired(f)
PruneTtlStat(fault) ==
  /\ diskOp.pc = "prune.ttlStat"
  /\ LET file == diskFiles[Head(diskOp.todo)]
         throws == fault \/ ~file.present
     IN IF throws
        THEN LET op == Caught("stat", diskOp)
             IN Advance(IF op.pc = "raise" THEN op ELSE [op EXCEPT !.pc = "prune.ttlUnlink"])
        ELSE IF DiskExpired(file.mtime)
             THEN Advance([diskOp EXCEPT !.pc = "prune.ttlUnlink"])
             ELSE Advance(AfterTtlPurge([diskOp EXCEPT !.todo = Tail(@)]))
  /\ CountFault(fault)
  /\ UNCHANGED <<diskOpts, diskFiles>>
  /\ DiskFrame

\* prune, TTL purge: fs.unlinkSync(f)
PruneTtlUnlink(fault) ==
  /\ diskOp.pc = "prune.ttlUnlink"
  /\ LET f == Head(diskOp.todo)
         throws == fault \/ ~diskFiles[f].present
         op == IF throws THEN Caught("unlink", diskOp) ELSE Removing(f)
     IN /\ Advance(IF op.pc = "raise" THEN op
                   ELSE AfterTtlPurge([op EXCEPT !.todo = Tail(@)]))
        /\ diskFiles' = IF throws THEN diskFiles ELSE Unlinked(f)
  /\ CountFault(fault)
  /\ UNCHANGED diskOpts
  /\ DiskFrame

\* prune, max entries purge: const remaining = this.listCacheFiles()
PruneMaxList(fault, listing) ==
  /\ diskOp.pc = "prune.maxList"
  /\ LET op == IF fault THEN Caught("readdir", [diskOp EXCEPT !.todo = <<>>])
               ELSE [diskOp EXCEPT !.todo = listing]
     IN Advance(IF op.pc = "raise" THEN op
                ELSE IF Len(op.todo) <= diskOpts.maxEntries.n THEN [op EXCEPT !.pc = "return"]
                ELSE [op EXCEPT !.pc = "prune.maxStat", !.withMtime = <<>>])
  /\ CountFault(fault)
  /\ UNCHANGED <<diskOpts, diskFiles>>
  /\ DiskFrame

\* a slice of the single oldest file
Oldest_single(sorted) == <<sorted[1].f>>

\* withMtime.slice(0, Math.max(0, withMtime.length - this.maxEntries)), the files of it
Oldest(sorted) ==
  [i \in 1..(Len(sorted) - diskOpts.maxEntries.n) |-> sorted[i].f]

\* prune, max entries purge: fs.statSync(f).mtimeMs, 0 when it throws; after the last
\* file, the sort and the slice of the oldest
PruneMaxStat(fault) ==
  /\ diskOp.pc = "prune.maxStat"
  /\ LET f == Head(diskOp.todo)
         throws == fault \/ ~diskFiles[f].present
         caught == IF throws THEN Caught("stat", diskOp) ELSE diskOp
         op == [caught EXCEPT !.todo = Tail(@),
                              !.withMtime = Append(@, [f |-> f,
                                  m |-> IF throws THEN 0 ELSE diskFiles[f].mtime])]
         sorted == SortByMtime(op.withMtime)
     IN Advance(IF op.pc = "raise" THEN op
                ELSE IF op.todo # <<>> THEN op
                ELSE [op EXCEPT !.pc = "prune.maxUnlink", !.todo = Oldest(sorted)])
  /\ CountFault(fault)
  /\ UNCHANGED <<diskOpts, diskFiles>>
  /\ DiskFrame

\* prune, max entries purge: fs.unlinkSync(f)
PruneMaxUnlink(fault) ==
  /\ diskOp.pc = "prune.maxUnlink"
  /\ LET f == Head(diskOp.todo)
         throws == fault \/ ~diskFiles[f].present
         caught == IF throws THEN Caught("unlink", diskOp) ELSE Removing(f)
         op == [caught EXCEPT !.todo = Tail(@)]
     IN /\ Advance(IF op.pc = "raise" \/ op.todo # <<>> THEN op
                   ELSE [op EXCEPT !.pc = "return"])
        /\ diskFiles' = IF throws THEN diskFiles ELSE Unlinked(f)
  /\ CountFault(fault)
  /\ UNCHANGED diskOpts
  /\ DiskFrame

\* clear() is called
DiskClear ==
  /\ diskOp.name = "idle"
  /\ diskOp' = [DiskIdle EXCEPT !.name = "clear", !.pc = "clear.list"]
  /\ diskCount' = [diskCount EXCEPT !.ops = @ + 1]
  /\ UNCHANGED <<diskOpts, diskFiles, diskLast>>
  /\ DiskFrame

\* clear: fs.readdirSync(this.cacheDir)
ClearList(fault, listing) ==
  /\ diskOp.pc = "clear.list"
  /\ LET op == IF fault THEN Caught("readdir", diskOp) ELSE [diskOp EXCEPT !.todo = listing]
     IN Advance(IF op.pc = "raise" THEN op
                ELSE IF op.todo = <<>> THEN [op EXCEPT !.pc = "return"]
                ELSE [op EXCEPT !.pc = "clear.unlink"])
  /\ CountFault(fault)
  /\ UNCHANGED <<diskOpts, diskFiles>>
  /\ DiskFrame

\* clear: fs.unlinkSync of one listed file
ClearUnlink(fault) ==
  /\ diskOp.pc = "clear.unlink"
  /\ LET f == Head(diskOp.todo)
         throws == fault \/ ~diskFiles[f].present
         caught == IF throws THEN Caught("unlink", diskOp) ELSE diskOp
         op == [caught EXCEPT !.todo = Tail(@)]
     IN /\ Advance(IF op.pc = "raise" \/ op.todo # <<>> THEN op
                   ELSE [op EXCEPT !.pc = "return"])
        /\ diskFiles' = IF throws THEN diskFiles ELSE Unlinked(f)
  /\ CountFault(fault)
  /\ UNCHANGED diskOpts
  /\ DiskFrame

\* another process deletes a file of the directory
PeerUnlink(k) ==
  /\ Disturbable
  /\ diskFiles[k].present
  /\ diskFiles' = Unlinked(k)
  /\ diskOp' = IF diskOp.name = "idle" THEN diskOp ELSE [diskOp EXCEPT !.raced = TRUE]
  /\ diskCount' = [diskCount EXCEPT !.peer = @ + 1]
  /\ UNCHANGED <<diskOpts, diskLast>>
  /\ DiskFrame

\* another process writes or replaces a file of the directory
PeerWrite(k, content) ==
  /\ Disturbable
  /\ diskFiles' = [diskFiles EXCEPT ![k] =
                     [present |-> TRUE, mtime |-> now, content |-> content]]
  /\ diskOp' = IF diskOp.name = "idle" THEN diskOp ELSE [diskOp EXCEPT !.raced = TRUE]
  /\ diskCount' = [diskCount EXCEPT !.peer = @ + 1]
  /\ UNCHANGED <<diskOpts, diskLast>>
  /\ DiskFrame

\* new DiskCache(opts) on an empty directory
InitDisk ==
  /\ diskOpts \in DiskOptions
  /\ diskFiles = NoFiles
  /\ diskOp = DiskIdle
  /\ diskLast = NoDiskResult
  /\ diskCount = NoDiskCount
  /\ diskProcs = OneProcess

\* the calls made so far are fewer than bound
DiskBudget(bound) == diskCount.ops < bound

NextDisk ==
  \/ \E k \in TwoKeys : DiskBudget(MaxDiskOps) /\ DiskGet(k)
  \/ \E k \in TwoKeys, v \in DiskValues : DiskBudget(MaxDiskOps) /\ DiskSet(k, v)
  \/ DiskBudget(MaxDiskOps) /\ DiskClear
  \/ \E fault \in FaultChoices : GetExists(fault)
  \/ \E fault \in FaultChoices : GetStat(fault)
  \/ \E fault \in FaultChoices : GetUnlink(fault)
  \/ \E fault \in FaultChoices : GetRead(fault)
  \/ \E fault \in FaultChoices, truncated \in BOOLEAN : SetWrite(fault, truncated)
  \/ \E fault \in FaultChoices, listing \in Listings : PruneList(fault, listing)
  \/ \E fault \in FaultChoices : PruneTtlStat(fault)
  \/ \E fault \in FaultChoices : PruneTtlUnlink(fault)
  \/ \E fault \in FaultChoices, listing \in Listings : PruneMaxList(fault, listing)
  \/ \E fault \in FaultChoices : PruneMaxStat(fault)
  \/ \E fault \in FaultChoices : PruneMaxUnlink(fault)
  \/ \E fault \in FaultChoices, listing \in Listings : ClearList(fault, listing)
  \/ \E fault \in FaultChoices : ClearUnlink(fault)
  \/ \E k \in TwoKeys : PeerUnlink(k)
  \/ \E k \in TwoKeys, content \in PeerContents : PeerWrite(k, content)
  \/ Tick(MaxDiskNow)

InitSpecDisk == InitMeter /\ InitClientOff /\ InitHashOff /\ InitBoundedOff /\ InitDisk /\
  InitStreamOff /\ InitPricing
SpecDisk == InitSpecDisk /\ [][NextDisk]_vars

\* ------------------------------------------------ DiskCache, one process alone
SoloOptions ==
  {[maxEntries |-> MaxEntriesOf(n), ttlMs |-> t] : n \in {1, 2}, t \in {NoTtl, TtlMs(0)}}

\* new DiskCache({ maxEntries, ttlMs }) on an empty directory that no other process uses
InitDiskSolo ==
  /\ diskOpts \in SoloOptions
  /\ diskFiles = NoFiles
  /\ diskOp = DiskIdle
  /\ diskLast = NoDiskResult
  /\ diskCount = NoDiskCount
  /\ diskProcs = OneProcess

NextDiskSolo ==
  \/ \E k \in DiskKeys : DiskBudget(MaxSoloOps) /\ DiskGet(k)
  \/ \E k \in DiskKeys, v \in DiskValues : DiskBudget(MaxSoloOps) /\ DiskSet(k, v)
  \/ DiskBudget(MaxSoloOps) /\ DiskClear
  \/ GetExists(FALSE)
  \/ GetStat(FALSE)
  \/ GetUnlink(FALSE)
  \/ GetRead(FALSE)
  \/ SetWrite(FALSE, FALSE)
  \/ \E listing \in Listings : PruneList(FALSE, listing)
  \/ PruneTtlStat(FALSE)
  \/ PruneTtlUnlink(FALSE)
  \/ \E listing \in Listings : PruneMaxList(FALSE, listing)
  \/ PruneMaxStat(FALSE)
  \/ PruneMaxUnlink(FALSE)
  \/ \E listing \in Listings : ClearList(FALSE, listing)
  \/ ClearUnlink(FALSE)
  \/ Tick(MaxDiskNow)

InitSpecDiskSolo ==
  InitMeter /\ InitClientOff /\ InitHashOff /\ InitBoundedOff /\ InitDiskSolo /\
  InitStreamOff /\ InitPricing
SpecDiskSolo == InitSpecDiskSolo /\ [][NextDiskSolo]_vars

\* ------------------------------------------- DiskCache, processes sharing a directory
\* the operating system runs another process: the running one stops between two of its
\* filesystem calls and process q goes on where it had stopped
Switch(q) ==
  /\ q # diskProcs.running
  /\ diskOp.name # "idle" \/ diskProcs.parked[q].name # "idle"
  /\ diskProcs' = [running |-> q,
                   parked |-> [diskProcs.parked EXCEPT ![diskProcs.running] = diskOp,
                                                       ![q] = DiskIdle]]
  /\ diskOp' = diskProcs.parked[q]
  /\ UNCHANGED <<diskOpts, diskFiles, diskLast, diskCount>>
  /\ UNCHANGED <<meterVars, scopes, chainVars, made, clientVars, hashVars, boundedVars,
                 streamVars, pricingVars>>

SharedOptions == {[maxEntries |-> MaxEntriesOf(1), ttlMs |-> NoTtl]}

\* new DiskCache({ cacheDir, maxEntries }) in each process, on a directory that holds
\* one entry of an earlier set
InitDiskShared ==
  /\ diskOpts \in SharedOptions
  /\ diskFiles = [NoFiles EXCEPT !["c"] = [present |-> TRUE, mtime |-> 0, content |-> 1]]
  /\ diskOp = DiskIdle
  /\ diskLast = NoDiskResult
  /\ diskCount = NoDiskCount
  /\ diskProcs = OneProcess

\* the processes call set; no filesystem call fails except on a file a peer has deleted
NextDiskShared ==
  \/ \E k \in TwoKeys : DiskBudget(MaxSharedOps) /\ DiskSet(k, 1)
  \/ SetWrite(FALSE, FALSE)
  \/ \E listing \in Listings : PruneList(FALSE, listing)
  \/ \E listing \in Listings : PruneMaxList(FALSE, listing)
  \/ PruneMaxStat(FALSE)
  \/ PruneMaxUnlink(FALSE)
  \/ \E q \in DiskProcesses : Switch(q)
  \/ Tick(MaxDiskNow)

InitSpecDiskShared ==
  InitMeter /\ InitClientOff /\ InitHashOff /\ InitBoundedOff /\ InitDiskShared /\
  InitStreamOff /\ InitPricing
SpecDiskShared == InitSpecDiskShared /\ [][NextDiskShared]_vars

\* ---------------------------------------------------- pricingFor, defineModel
\* the model ids looked up and defined: a base id, ids with a date suffix in both
\* forms, an id with another suffix, the ids the suffix stripping passes through
ModelIds ==
  {"gpt", "gpt-4o", "gpt-4o-2024", "gpt-4o-2024-08", "gpt-4o-2024-08-06",
   "gpt-4o-20240806", "gpt-4o-latest", "mystery"}

\* model.split("-")
Split(model) ==
  CASE model = "gpt" -> <<"gpt">>
    [] model = "gpt-4o" -> <<"gpt", "4o">>
    [] model = "gpt-4o-2024" -> <<"gpt", "4o", "2024">>
    [] model = "gpt-4o-2024-08" -> <<"gpt", "4o", "2024", "08">>
    [] model = "gpt-4o-2024-08-06" -> <<"gpt", "4o", "2024", "08", "06">>
    [] model = "gpt-4o-20240806" -> <<"gpt", "4o", "20240806">>
    [] model = "gpt-4o-latest" -> <<"gpt", "4o", "latest">>
    [] OTHER -> <<model>>
\* segments.join("-")
Join(segments) == CHOOSE model \in ModelIds : Split(model) = segments

\* \d{4}, \d{2}, \d{8}
Digits(n) == CASE n = 4 -> {"2024"} [] n = 2 -> {"08", "06"} [] n = 8 -> {"20240806"}
               [] OTHER -> {}

\* the while loop of resolveModelPricingKey: strip trailing "-segment" pieces
RECURSIVE StripSegments(_, _)
StripSegments(db, segments) ==
  IF Len(segments) <= 1 THEN Undefined
  ELSE LET cur == Join(SubSeq(segments, 1, Len(segments) - 1))
       IN IF cur \in DOMAIN db THEN cur
          ELSE StripSegments(db, SubSeq(segments, 1, Len(segments) - 1))

resolveModelPricingKey(db, model) ==
  LET s == Split(model)
      n == Len(s)
      stripDashDate ==
        IF n > 3 /\ s[n - 2] \in Digits(4) /\ s[n - 1] \in Digits(2) /\ s[n] \in Digits(2)
        THEN Join(SubSeq(s, 1, n - 3)) ELSE model
      stripCompactDate ==
        IF n > 1 /\ s[n] \in Digits(8) THEN Join(SubSeq(s, 1, n - 1)) ELSE model
  IN IF model \in DOMAIN db THEN model
     ELSE IF stripDashDate # model /\ stripDashDate \in DOMAIN db THEN stripDashDate
     ELSE IF stripCompactDate # model /\ stripCompactDate \in DOMAIN db THEN stripCompactDate
     ELSE StripSegments(db, s)

\* PRICING_DB[model] = value
Assign(db, model, value) ==
  [m \in DOMAIN db \cup {model} |-> IF m = model THEN value ELSE db[m]]

PricingFrame ==
  UNCHANGED <<meterVars, scopes, chainVars, made, clientVars, hashVars, boundedVars,
              diskVars, streamVars>>

\* pricingFor(model)
PricingFor(model) ==
  /\ LET key == resolveModelPricingKey(pricingDb, model) IN
     IF key = Undefined
     THEN /\ pricingDb' = pricingDb
          /\ pricingLast' = [op |-> "pricingFor", model |-> model, threw |-> TRUE,
                             price |-> NoPricing]
     ELSE /\ pricingDb' = IF key # model THEN Assign(pricingDb, model, pricingDb[key])
                          ELSE pricingDb
          /\ pricingLast' = [op |-> "pricingFor", model |-> model, threw |-> FALSE,
                             price |-> pricingDb[key]]
  /\ pricingHist' = [pricingHist EXCEPT !.ops = @ + 1]
  /\ PricingFrame

\* the prices defineModel is called with; provider ?? "custom"
Prices ==
  {[inputPer1k |-> 1, outputPer1k |-> 2, provider |-> Undefined],
   [inputPer1k |-> 7, outputPer1k |-> 9, provider |-> "my-llm"]}

\* defineModel(model, price)
DefineModel(model, price) ==
  /\ LET value == [inputPer1k |-> price.inputPer1k, outputPer1k |-> price.outputPer1k,
                   provider |-> IF price.provider # Undefined THEN price.provider
                                ELSE "custom"]
     IN /\ pricingDb' = Assign(pricingDb, model, value)
        /\ pricingLast' = [op |-> "defineModel", model |-> model, threw |-> FALSE,
                           price |-> value]
        /\ pricingHist' = [ops |-> pricingHist.ops + 1,
                           registered |-> Assign(pricingHist.registered, model, value)]
  /\ PricingFrame

NextPricing ==
  \/ \E m \in ModelIds : pricingHist.ops < MaxPricingOps /\ PricingFor(m)
  \/ \E m \in ModelIds, p \in Prices : pricingHist.ops < MaxPricingOps /\ DefineModel(m, p)

InitSpecPricing == InitMeter /\ InitClientOff /\ InitHashOff /\ InitBoundedOff /\ InitDiskOff /\
  InitStreamOff /\ InitPricing
SpecPricing == InitSpecPricing /\ [][NextPricing]_vars

\* =================================================================== claims
breakdown == usageByProviderState
savings == cacheStatsState

RECURSIVE SumTokens(_)
SumTokens(P) ==
  IF P = {} THEN 0 ELSE LET p == CHOOSE x \in P : TRUE IN breakdown[p].tokens + SumTokens(P \ {p})

RECURSIVE SumCalls(_)
SumCalls(P) ==
  IF P = {} THEN 0 ELSE LET p == CHOOSE x \in P : TRUE IN breakdown[p].calls + SumCalls(P \ {p})

\* the provider costs added as real numbers
RECURSIVE ExactCost(_)
ExactCost(P) ==
  IF P = {} THEN 0 ELSE LET p == CHOOSE x \in P : TRUE IN breakdown[p].costUsd + ExactCost(P \ {p})

\* the provider costs added with JavaScript's +, in every order
RECURSIVE FloatCosts(_)
FloatCosts(P) ==
  IF P = {} THEN {0}
  ELSE UNION {{FAdd(t, breakdown[p].costUsd) : t \in FloatCosts(P \ {p})} : p \in P}

\* C1 as stated: summary.tokens, summary.calls and summary.costUsd each equal the sum
\* of the field over breakdown, after any sequence of record and clear.
C1_LedgerSumsEqual ==
  /\ summary.tokens = SumTokens(DOMAIN breakdown)
  /\ summary.calls = SumCalls(DOMAIN breakdown)
  /\ summary.costUsd \in FloatCosts(DOMAIN breakdown) \cup {ExactCost(DOMAIN breakdown)}

\* C1 amended: tokens and calls equal their sums over breakdown after any sequence of
\* record and clear, failing records included; costUsd equals the sum while at most one
\* provider has an entry (with more the two are float sums taken in different orders).
C1_LedgerCountsSum ==
  /\ summary.tokens = SumTokens(DOMAIN breakdown)
  /\ summary.calls = SumCalls(DOMAIN breakdown)
  /\ Cardinality(DOMAIN breakdown) <= 1 => summary.costUsd = ExactCost(DOMAIN breakdown)

\* both providers have entries, after a record that raised a limit error and a clear
C1_Witness ==
  /\ DOMAIN breakdown = Providers
  /\ made.raised
  /\ made.clears = 1

\* ----------------------------------------------- the scope's delta, restated
DeltaTokens(s, u) == u.tokens - scopes[s].initial.tokens
DeltaCost(s, u) == FSub(u.costUsd, scopes[s].initial.costUsd)
OverTokens(s, u) == scopes[s].maxTokens # NoLimit /\ DeltaTokens(s, u) > scopes[s].maxTokens
OverCost(s, u) == scopes[s].maxCostUsd # NoLimit /\ DeltaCost(s, u) > scopes[s].maxCostUsd
Over(s, u) == OverCost(s, u) \/ OverTokens(s, u)
Recorded == made'.calls = made.calls + 1
RunSettles(c) == Len(stack'[c]) < Len(stack[c])
\* the scope the call structure of chain c makes current
Structural(c) == IF stack[c] # <<>> THEN Top(c).scope ELSE base[c]

\* C2: inside run of a scope with only maxTokens = M (only maxCostUsd = C) a record
\* raises TokenCapExceeded(delta, M) (CostLimitExceeded(delta, C)) exactly when the
\* delta is strictly above the limit, and a limit error that leaves run makes run
\* reject with that error.
C2_BreachRejectsRun ==
  [][/\ (Recorded /\ stack[Main] # <<>>) =>
          LET s == Top(Main).scope
              M == scopes[s].maxTokens
              C == scopes[s].maxCostUsd
              dT == DeltaTokens(s, usageState')
              dC == DeltaCost(s, usageState')
          IN /\ (C = NoLimit /\ M # NoLimit) =>
                  exc'[Main] = IF dT > M THEN TokenCapExceeded(dT, M) ELSE NoExc
             /\ (M = NoLimit /\ C # NoLimit) =>
                  exc'[Main] = IF dC > C THEN CostLimitExceeded(dC, C) ELSE NoExc
     /\ (exc[Main].kind \in LimitKinds /\ RunSettles(Main)) =>
          /\ lastRun'[Main].outcome = "rejected"
          /\ lastRun'[Main].err = exc[Main]
          /\ exc'[Main] = exc[Main]]_vars

\* run has rejected with the TokenCapExceeded a record inside it raised
C2_Witness ==
  /\ lastRun[Main].outcome = "rejected"
  /\ ~lastRun[Main].checked
  /\ lastRun[Main].err = TokenCapExceeded(DeltaTokens(lastRun[Main].scope, usageState),
                                          scopes[lastRun[Main].scope].maxTokens)
  /\ exc[Main] = lastRun[Main].err

\* C3: a record adds the event and then fails at once exactly when the scope current
\* for the calling chain is over a limit; with no scope current for the chain it
\* raises no limit error, whatever scopes other chains are inside of.
C3_RecordChecksCurrentScope ==
  [][\A c \in Chains : (Recorded /\ turn = c) =>
        /\ usageState'.calls = usageState.calls + 1
        /\ exc'[c].kind \in LimitKinds <=>
             (Structural(c) # Undefined /\ Over(Structural(c), usageState'))
        /\ exc'[c].kind \in LimitKinds \cup {"none"}
        /\ \A d \in Chains \ {c} : exc'[d] = exc[d]]_vars

\* only chain c has recorded, it has no scope and no error, and a sibling is inside
\* a run whose scope these records pushed over its limit
C3_Witness ==
  \E c \in Chains, d \in Chains :
    /\ c # d /\ turn = c /\ made.callers = {c}
    /\ stack[c] = <<>> /\ base[c] = Undefined /\ exc[c] = NoExc /\ ~made.raised
    /\ stack[d] # <<>> /\ Over(Top(d).scope, usageState)

\* C4: once a run has settled (resolved, rejected by fn, rejected by the limit check)
\* the calling chain sees the scope it saw before the run: none at top level, the
\* enclosing scope when nested.
C4_ScopeReleased ==
  (turn = Main /\ lastRun[Main].outcome # "none") =>
     alsCurrent = IF stack[Main] = <<>> THEN Undefined ELSE Top(Main).scope

\* the inner run was rejected by its limit check and the outer body sees the outer scope
C4_Witness ==
  /\ turn = Main /\ Len(stack[Main]) = 1
  /\ lastRun[Main].outcome = "rejected" /\ lastRun[Main].checked
  /\ lastRun[Main].scope # Top(Main).scope
  /\ alsCurrent = Top(Main).scope

\* C5: the executing chain never sees a scope that only another chain entered, and a
\* top-level chain outside every run sees none.
C5_NoLeakBetweenChains ==
  \A c \in Chains : turn = c =>
    /\ \A d \in Chains \ {c} : \A i \in 1..Len(stack[d]) :
          alsCurrent = stack[d][i].scope =>
            \/ alsCurrent = base[c]
            \/ \E j \in 1..Len(stack[c]) : stack[c][j].scope = alsCurrent
    /\ (stack[c] = <<>> /\ base[c] = Undefined) => alsCurrent = Undefined

\* two sibling chains are inside runs of different scopes and the executing one sees its own
C5_Witness ==
  \E c \in Chains, d \in Chains :
    /\ c # d /\ turn = c /\ base[c] = Undefined /\ base[d] = Undefined
    /\ stack[c] # <<>> /\ stack[d] # <<>>
    /\ Top(c).scope # Top(d).scope
    /\ alsCurrent = Top(c).scope

\* C6: whenever a chain executes inside a run, across suspensions and nested runs, the
\* innermost unsettled run's scope is current, and a continuation created inside a run
\* sees that run's scope.
C6_ScopeStaysCurrent ==
  \A c \in Chains : turn = c =>
    /\ stack[c] # <<>> => alsCurrent = Top(c).scope
    /\ (stack[c] = <<>> /\ base[c] # Undefined) => alsCurrent = base[c]

\* a continuation created inside a run executes under that run's scope while the
\* parent, suspended inside a nested run, has not settled it
C6_Witness ==
  \E c \in Chains, d \in Chains :
    /\ c # d /\ turn = d /\ stack[d] = <<>> /\ base[d] # Undefined
    /\ Len(stack[c]) = 2 /\ stack[c][1].scope = base[d] /\ stack[c][2].scope # base[d]
    /\ alsCurrent = base[d]

\* C7: when fn has completed, run settles by one limit check made with the scope still
\* current: it resolves exactly when the delta is within both limits at that moment
\* and otherwise rejects with the limit error.
C7_RunChecksAfterFn ==
  [][(stack[Main] # <<>> /\ RunSettles(Main) /\ exc[Main] = NoExc) =>
        LET s == Top(Main).scope IN
        /\ Top(Main).phase = "returned"
        /\ alsCurrent = s
        /\ lastRun'[Main].scope = s /\ lastRun'[Main].checked
        /\ exc'[Main] = lastRun'[Main].err
        /\ IF Over(s, usageState)
           THEN /\ lastRun'[Main].outcome = "rejected"
                /\ lastRun'[Main].err.kind \in LimitKinds
                /\ lastRun'[Main].err.kind = "TokenCapExceeded" =>
                     /\ lastRun'[Main].err.current = DeltaTokens(s, usageState)
                     /\ lastRun'[Main].err.max = scopes[s].maxTokens
           ELSE /\ lastRun'[Main].outcome = "resolved"
                /\ lastRun'[Main].err = NoExc]_vars

\* run was rejected by the check after fn although no record ever raised
C7_Witness ==
  /\ lastRun[Main].outcome = "rejected" /\ lastRun[Main].checked
  /\ lastRun[Main].err.kind \in LimitKinds
  /\ ~made.raised

\* C8: when fn raised, run rejects with that failure and makes no limit check, even
\* when the scope is over a limit.
C8_FnFailurePropagates ==
  [][(stack[Main] # <<>> /\ RunSettles(Main) /\ exc[Main] # NoExc) =>
        /\ exc'[Main] = exc[Main]
        /\ lastRun'[Main].outcome = "rejected"
        /\ lastRun'[Main].err = exc[Main]
        /\ ~lastRun'[Main].checked]_vars

\* run rejected with fn's own failure while its scope was over the limit
C8_Witness ==
  /\ lastRun[Main].err = FnError /\ exc[Main] = FnError
  /\ Over(lastRun[Main].scope, usageState)

\* C9: nested token scopes, inner limit a inside outer limit b: a record that takes
\* the inner delta above a while the outer delta is at most b raises the inner
\* TokenCapExceeded only, outer.checkLimits() passes, and when the outer body has
\* caught the failure and returns the outer run resolves.
C9_InnerBreachSparesOuter ==
  [][/\ (Recorded /\ Len(stack[Main]) = 2) =>
          LET outer == stack[Main][1].scope
              inner == stack[Main][2].scope
          IN (/\ inner # outer
              /\ scopes[inner].maxCostUsd = NoLimit /\ scopes[outer].maxCostUsd = NoLimit
              /\ OverTokens(inner, usageState')
              /\ scopes[outer].maxTokens # NoLimit
              /\ ~OverTokens(outer, usageState')) =>
                /\ exc'[Main] = TokenCapExceeded(DeltaTokens(inner, usageState'),
                                                 scopes[inner].maxTokens)
                /\ checkLimits(scopes[outer], usageState') = NoExc
     /\ (/\ Len(stack[Main]) = 1 /\ RunSettles(Main) /\ exc[Main] = NoExc
         /\ lastRun[Main].err.kind = "TokenCapExceeded"
         /\ lastRun[Main].scope # Top(Main).scope
         /\ ~Over(Top(Main).scope, usageState)) =>
           lastRun'[Main].outcome = "resolved" /\ lastRun'[Main].scope = Top(Main).scope]_vars

\* the inner run was rejected with its TokenCapExceeded, the outer body caught it and
\* returned, and the outer scope is within its limit
C9_Witness ==
  /\ Len(stack[Main]) = 1 /\ Top(Main).phase = "returned" /\ exc[Main] = NoExc
  /\ lastRun[Main].err.kind = "TokenCapExceeded" /\ ~lastRun[Main].checked
  /\ lastRun[Main].scope # Top(Main).scope
  /\ scopes[Top(Main).scope].maxTokens # NoLimit
  /\ OverTokens(lastRun[Main].scope, usageState)
  /\ ~Over(Top(Main).scope, usageState)

\* C10: once every chain has finished, summary.calls is the number of record calls
\* made and summary.tokens the sum of their tokens, under every interleaving.
C10_NoLostUpdate ==
  (\A c \in Chains : pc[c] # "running") =>
     /\ summary.calls = made.calls
     /\ summary.tokens = made.tokens

\* both chains have recorded and finished
C10_Witness ==
  /\ \A c \in Chains : pc[c] \in {"done", "failed"}
  /\ made.callers = Chains
  /\ made.calls >= 2

\* C11: a check of a scope whose delta is over both limits fails with
\* CostLimitExceeded carrying the cost delta, and a check fails with TokenCapExceeded
\* only when the cost limit is unset or not exceeded; checked at every check made by
\* record and by the end of run.
C11_CostFirst ==
  [][((Recorded /\ stack[Main] # <<>>) \/
      (stack[Main] # <<>> /\ RunSettles(Main) /\ exc[Main] = NoExc)) =>
        LET s == Top(Main).scope IN
        /\ (OverCost(s, usageState') /\ OverTokens(s, usageState')) =>
             exc'[Main] = CostLimitExceeded(DeltaCost(s, usageState'), scopes[s].maxCostUsd)
        /\ exc'[Main].kind = "TokenCapExceeded" =>
             (scopes[s].maxCostUsd = NoLimit \/ ~OverCost(s, usageState'))]_vars

\* a run rejected with CostLimitExceeded by a scope that is over its token limit too
C11_Witness ==
  /\ lastRun[Main].err.kind = "CostLimitExceeded"
  /\ exc[Main] = lastRun[Main].err
  /\ OverCost(lastRun[Main].scope, usageState)
  /\ OverTokens(lastRun[Main].scope, usageState)

\* deep equality of two request values: object keys compared as a set
RECURSIVE DeepEqual(_, _)
DeepEqual(v, w) ==
  /\ v.t = w.t /\ v.s = w.s /\ Len(v.items) = Len(w.items)
  /\ IF v.t = "object"
     THEN /\ {v.items[i].k : i \in DOMAIN v.items} = {w.items[i].k : i \in DOMAIN w.items}
          /\ \A i \in DOMAIN v.items : DeepEqual(v.items[i].x, Prop(w, v.items[i].k))
     ELSE \A i \in DOMAIN v.items : DeepEqual(v.items[i].x, w.items[i].x)

\* values built from strings, finite numbers, booleans and null only
RECURSIVE JSONOnly(_)
JSONOnly(v) ==
  /\ v.t \in {"null", "string", "number", "boolean", "array", "object"}
  /\ v.t = "number" => IsFinite(v)
  /\ \A i \in DOMAIN v.items : JSONOnly(v.items[i].x)

SameKeyOnAllBackends ==
  /\ hashOut.memory[1] = hashOut.memory[2]
  /\ hashOut.bounded[1] = hashOut.bounded[2]
  /\ hashOut.disk[1] = hashOut.disk[2]

\* C19 as stated: deep-equal requests with differently ordered keys get the same key
\* on the three backends, and a request with the elements of an array reordered has
\* another rendered form.
C19_KeyOrderOnly ==
  hashOut.kind # "none" =>
    /\ DeepEqual(hashReq, hashAlt) => SameKeyOnAllBackends
    /\ (hashOut.kind = "array" /\ hashAlt # hashReq) =>
         hashOut.rendered[1] # hashOut.rendered[2]

\* C19 amended: deep-equal requests with differently ordered keys, at any depth, get
\* the same key on the three backends; reordering the elements of an array changes
\* the rendered form when the request holds only strings, finite numbers, booleans
\* and null.
C19_KeyOrderIndependent ==
  hashOut.kind # "none" =>
    /\ DeepEqual(hashReq, hashAlt) => SameKeyOnAllBackends
    /\ hashOut.kind = "keys" => DeepEqual(hashReq, hashAlt)
    /\ (hashOut.kind = "array" /\ hashAlt # hashReq /\ JSONOnly(hashReq)) =>
         hashOut.rendered[1] # hashOut.rendered[2]

\* keys derived for two requests whose keys are ordered differently at both depths
C19_Witness ==
  /\ hashOut.kind = "keys"
  /\ hashReq.items[1].k # hashAlt.items[1].k
  /\ Prop(hashReq, "n").t = "object"
  /\ Prop(hashReq, "n").items[1].k # Prop(hashAlt, "n").items[1].k
  /\ SameKeyOnAllBackends

\* a create call returns or raises
CallEnds(c) == call[c].phase # "idle" /\ call'[c].phase = "idle"
\* the call found a response stored under its key in a backend that retains entries
Repeated(c) == cacheBackend \in {"memory", "async"} /\ call[c].start.entry # NoResp

NoteStep ==
  cacheStatsState'.hitCount + cacheStatsState'.missCount
    = cacheStatsState.hitCount + cacheStatsState.missCount + 1

\* C13: noteCacheHit(t, u) adds 1 to hitCount, t to tokensSaved and u to usdSaved,
\* noteCacheMiss adds 1 to missCount, and neither changes summary or breakdown.
C13_NotesTouchSavingsOnly ==
  [][NoteStep =>
       /\ summary' = summary
       /\ breakdown' = breakdown
       /\ \/ \E v \in Savings :
               cacheStatsState' = [hitCount |-> savings.hitCount + 1,
                                   missCount |-> savings.missCount,
                                   tokensSaved |-> savings.tokensSaved + v.tokensSaved,
                                   usdSaved |-> FAdd(savings.usdSaved, v.usdSaved)]
          \/ cacheStatsState' = [savings EXCEPT !.missCount = @ + 1]]_vars

\* a hit and a miss were noted after one record; the totals are the record's
C13_Witness ==
  /\ savings.hitCount = 1 /\ savings.missCount = 1
  /\ savings.tokensSaved = 2 /\ savings.usdSaved = 36
  /\ summary.calls = 1 /\ summary.tokens = made.tokens /\ SumCalls(DOMAIN breakdown) = 1

\* C14 as stated: when the backend's get or set throws or rejects during a create
\* call, the call still returns the SDK's response, with the usage recorded.
C14_CacheFailureSwallowed ==
  lastCall[Main].cacheFailed =>
    /\ lastCall[Main].outcome = "returned"
    /\ lastCall[Main].resp # NoResp
    /\ summary.calls = lastCall[Main].start.calls + 1

\* a step of BoundedMemoryCache.get or set
GetStep == bmcHist'.ops = bmcHist.ops + 1 /\ bmcLast'.op = "get"
SetStep == bmcHist'.ops = bmcHist.ops + 1 /\ bmcLast'.op = "set"

\* C16 as stated: between operations the number of entries stored in a
\* BoundedMemoryCache built with maxEntries = N never exceeds max(1, floor(N)).
C16_SizeWithinBound ==
  Len(bmcCache) <= CoerceMaxEntries(bmcOpts.maxEntries)

\* the stored key, other than k, whose most recent successful get or set is the oldest
LeastRecentlyUsed(k) ==
  LET S == MapKeys(bmcCache) \ {k}
  IN CHOOSE x \in S : \A y \in S : bmcHist.touch[x] <= bmcHist.touch[y]

\* C17 as stated: a set that pushes the size over maxEntries evicts the stored key
\* whose most recent successful get or set is the oldest, and keeps the key just set.
C17_EvictsLeastRecentlyUsed ==
  [][(SetStep /\ Cardinality(MapKeys(bmcCache) \cup {bmcLast'.key}) > bmcMaxEntries) =>
       LET k == bmcLast'.key
       IN MapKeys(bmcCache') = (MapKeys(bmcCache) \ {LeastRecentlyUsed(k)}) \cup {k}]_vars

\* the key was set at some time and ttlMs is a finite number
Timed(k) == bmcTtlMs.given /\ bmcTtlMs.finite /\ bmcHist.touch[k] > 0

\* C18: with ttlMs = T, a get(k) later than T after k's most recent set reports absent
\* and leaves no entry for k; a get at or before that instant of a stored k returns
\* the value of that set and leaves the expiry where the set put it.
C18_ExpiresAfterTtl ==
  [][GetStep =>
       LET k == bmcLast'.key
           deadline == bmcHist.setAt[k] + bmcTtlMs.ms
       IN Timed(k) =>
            IF now > deadline
            THEN ~bmcLast'.found /\ ~MapHas(bmcCache', k)
            ELSE MapHas(bmcCache, k) =>
                   /\ bmcLast'.found
                   /\ bmcLast'.value = bmcHist.setVal[k]
                   /\ MapHas(bmcCache', k)
                   /\ MapGet(bmcCache', k).expiresAt = ExpiresAt(deadline)]_vars

\* set at 0 with ttlMs = 1, a get at 1 returned the value, a get at 2 found the key
\* absent and removed it
C18_Witness ==
  /\ bmcTtlMs = TtlMs(1)
  /\ bmcHist.setAt["a"] = 0 /\ bmcHist.touch["a"] = 2
  /\ now = 2 /\ bmcHist.ops = 3
  /\ bmcLast = [NoOp EXCEPT !.op = "get", !.key = "a"]
  /\ bmcCache = <<>>

\* C15: DiskCache.get, set and clear never raise, whichever filesystem call fails and
\* whatever a peer process deletes or replaces between the calls; a get during which
\* a call failed reports absent.
C15_DiskCacheNeverRaises ==
  /\ diskLast.outcome # "raised"
  /\ (diskLast.name = "get" /\ diskLast.failed) => ~diskLast.found

\* a get saw its file exist, a peer then deleted it, the read failed and get
\* returned absent
C15_Witness ==
  /\ diskLast.name = "get" /\ diskLast.outcome = "returned"
  /\ diskLast.raced /\ diskLast.failed /\ ~diskLast.found
  /\ diskCount.faults = 0
  /\ diskOpts.ttlMs = NoTtl

\* a step after which one of summary, breakdown and savings is reset that was not
ResetStep ==
  \/ summary # ZeroUsage /\ summary' = ZeroUsage
  \/ breakdown # <<>> /\ breakdown' = <<>>
  \/ savings # ZeroCache /\ savings' = ZeroCache

\* C20: clear resets summary, breakdown and savings in one step, so that whichever
\* chain runs next finds all three reset, and the sums over breakdown equal summary
\* right after it.
C20_ClearResetsAll ==
  [][ResetStep =>
       /\ summary' = ZeroUsage
       /\ breakdown' = <<>>
       /\ savings' = ZeroCache
       /\ C1_LedgerSumsEqual']_vars

\* a clear after both chains recorded left all three reset while a chain is suspended
C20_Witness ==
  /\ made.clears = 1 /\ made.callers = Chains
  /\ summary = ZeroUsage /\ breakdown = <<>> /\ savings = ZeroCache
  /\ \E c \in Chains : pc[c] = "running" /\ turn # c

\* C21: remainingTokens is undefined when maxTokens is unset; otherwise it is
\* maxTokens - currentUsage.tokens while that is positive and 0 once the delta has
\* reached or passed the limit, so never negative; remainingBudget likewise with
\* maxCostUsd and currentUsage.costUsd.
C21_RemainingClamped ==
  \A s \in DOMAIN scopes :
    LET usage == [tokens |-> summary.tokens - scopes[s].initial.tokens,
                  costUsd |-> FSub(summary.costUsd, scopes[s].initial.costUsd)]
        t == remainingTokens(scopes[s], summary)
        b == remainingBudget(scopes[s], summary)
    IN /\ IF scopes[s].maxTokens = NoLimit THEN ~t.defined
          ELSE /\ t.defined /\ t.value >= 0
               /\ usage.tokens >= scopes[s].maxTokens => t.value = 0
               /\ usage.tokens < scopes[s].maxTokens =>
                    t.value = scopes[s].maxTokens - usage.tokens
       /\ IF scopes[s].maxCostUsd = NoLimit THEN ~b.defined
          ELSE /\ b.defined /\ b.value >= 0
               /\ usage.costUsd >= scopes[s].maxCostUsd => b.value = 0
               /\ usage.costUsd < scopes[s].maxCostUsd =>
                    b.value = FSub(scopes[s].maxCostUsd, usage.costUsd)

\* a scope whose token delta has passed its limit reports 0 tokens remaining and no
\* budget figure
C21_Witness ==
  \E s \in DOMAIN scopes :
    /\ scopes[s].maxTokens # NoLimit /\ scopes[s].maxCostUsd = NoLimit
    /\ summary.tokens - scopes[s].initial.tokens > scopes[s].maxTokens
    /\ remainingTokens(scopes[s], summary) = Number(0)
    /\ remainingBudget(scopes[s], summary) = NoNumber

\* C22: currentUsage is the meter's live totals minus the scope's baseline, field by
\* field and without clamping, negative after a clear during a scope whose baseline
\* was not zero.
C22_DeltaNotClamped ==
  \A s \in DOMAIN scopes :
    LET usage == currentUsage(scopes[s], summary)
        initial == scopes[s].initial
    IN /\ usage.tokens + initial.tokens = summary.tokens
       /\ usage.inputTokens + initial.inputTokens = summary.inputTokens
       /\ usage.outputTokens + initial.outputTokens = summary.outputTokens
       /\ usage.calls + initial.calls = summary.calls
       /\ usage.costUsd = FSub(summary.costUsd, initial.costUsd)
       /\ (summary = ZeroUsage /\ initial.calls > 0) =>
            /\ usage.tokens < 0 /\ usage.calls < 0 /\ usage.costUsd < 0
            /\ usage.costUsd = 0 - initial.costUsd

\* the meter was cleared inside a run of a scope constructed after a record
C22_Witness ==
  /\ "s1" \in DOMAIN scopes /\ scopes["s1"].initial.calls > 0
  /\ made.clears = 1 /\ summary = ZeroUsage
  /\ alsCurrent = "s1"
  /\ currentUsage(scopes["s1"], summary).tokens < 0

\* the files present after the step
DiskPresent == {k \in DiskKeys : diskFiles[k].present}
CallReturns(name) == diskOp.name = name /\ diskOp'.name = "idle"

\* C23: one process alone on its directory, no filesystem call failing: when a set of a
\* cache with maxEntries = N returns, the directory holds at most N cache files, and
\* every file its prune removed was at most as recent as every file left
C23_PruneKeepsNewest ==
  [][CallReturns("set") /\ diskOpts.maxEntries.given =>
       /\ Cardinality(DiskPresent') <= diskOpts.maxEntries.n
       /\ \A k \in DiskPresent' : diskFiles'[k].mtime >= diskLast'.newest]_vars
\* a set has returned whose prune removed a file written at time 1, the directory full
C23_Witness ==
  /\ diskOp.name = "idle" /\ diskLast.name = "set" /\ diskLast.newest = 1
  /\ diskOpts.maxEntries.given /\ Cardinality(DiskPresent) = diskOpts.maxEntries.n
  /\ diskCount.faults = 0 /\ diskCount.peer = 0


\* C24: a get(k) of a cache with ttlMs, no filesystem call of it failing and no other
\* process touching the directory meanwhile, of a file that is there: when the time it
\* reads minus the file's mtime is greater than ttlMs it deletes the file and reports
\* absent; otherwise it returns the stored value and leaves the file as it is
C24_GetHonoursTtl ==
  [][LET k == diskOp.key
         file == diskFiles[k]
     IN ( /\ CallReturns("get") /\ diskOpts.ttlMs.given /\ diskOpts.ttlMs.finite
          /\ file.present /\ ~diskOp.raced /\ ~diskLast'.failed
          /\ diskLast'.outcome = "returned" ) =>
        IF diskOp.at - file.mtime > diskOpts.ttlMs.ms
        THEN ~diskFiles'[k].present /\ ~diskLast'.found
        ELSE /\ diskLast'.found /\ diskLast'.value = file.content
             /\ diskFiles'[k] = file]_vars
\* a get of a file whose age is exactly ttlMs has returned its value, the file in place
C24_Witness ==
  /\ diskOp.name = "idle" /\ diskLast.name = "get" /\ diskLast.found
  /\ ~diskLast.failed /\ ~diskLast.raced
  /\ diskOpts.ttlMs.given /\ diskOpts.ttlMs.finite
  /\ diskFiles[diskLast.key].present
  /\ now - diskFiles[diskLast.key].mtime = diskOpts.ttlMs.ms

\* C25: no step of get changes the mtime of a file: a file there after the step was
\* there before it with the same mtime
C25_GetKeepsMtimes ==
  [][( /\ diskOp.name = "get" \/ diskOp'.name = "get"
       /\ diskCount'.peer = diskCount.peer ) =>
       \A k \in DiskKeys : diskFiles'[k].present =>
          diskFiles[k].present /\ diskFiles'[k].mtime = diskFiles[k].mtime]_vars
\* a get has returned the value of a file written at an earlier time, its mtime the same
C25_Witness ==
  /\ diskOp.name = "idle" /\ diskLast.name = "get" /\ diskLast.found
  /\ ~diskLast.raced /\ diskCount.peer = 0
  /\ diskFiles[diskLast.key].present /\ diskFiles[diskLast.key].mtime < now


\* a hint whose token counts are non-zero
ReportsUsage(hint) ==
  hint.given /\ ( coerceNumber(hint.inputTokens) + coerceNumber(hint.outputTokens) > 0
                  \/ coerceNumber(hint.totalTokens) > 0 )
UsageChunks == {i \in DOMAIN stream.src : ReportsUsage(extract(stream.src[i]))}

\* C26: the chunks handed to the consumer of a stream wrapped by meterStream are the
\* chunks the source has given, in order; the iteration calls record at most once, only
\* once the source has ended, with the event of the last chunk whose hint has non-zero
\* token counts; it calls record for no stream without such a chunk and for no stream
\* the consumer left early
C26_RecordsOnceAtEnd ==
  /\ stream.out = stream.src
  /\ Len(stream.recorded) <= 1
  /\ stream.recorded # <<>> =>
       /\ stream.ended /\ stream.pc \in {"done", "threw"}
       /\ \E i \in UsageChunks :
            /\ \A j \in UsageChunks : j <= i
            /\ stream.recorded[1] = StreamEvent(extract(stream.src[i]), stream.opts)
  /\ UsageChunks = {} => stream.recorded = <<>>
  /\ ~stream.ended => stream.recorded = <<>>
  /\ stream.pc = "returned" => stream.recorded = <<>>
\* a stream of two chunks with different non-zero usage has ended and the second chunk's
\* usage is on the meter
C26_Witness ==
  /\ stream.pc = "done" /\ Len(stream.src) = 2 /\ UsageChunks = {1, 2}
  /\ extract(stream.src[1]) # extract(stream.src[2])
  /\ stream.recorded = <<StreamEvent(extract(stream.src[2]), stream.opts)>>
  /\ summary.calls = 1
  /\ summary.tokens = stream.recorded[1].inputTokens + stream.recorded[1].outputTokens

\* the request asks for a stream
StreamRequested(r) ==
  \E i \in DOMAIN r.items : r.items[i].k = "stream" /\ r.items[i].x = Bool("true")

\* C27: with a cache configured, no step of a create call whose request has
\* stream === true, from the call to its return, calls the cache's makeKey, get or set
\* or changes savings.hitCount or savings.missCount, whatever the cache holds
C27_StreamingBypassesCache ==
  [][( /\ cacheBackend # "none"
       /\ \/ call[Main].phase # "idle" /\ StreamRequested(call[Main].req)
          \/ call'[Main].phase # "idle" /\ StreamRequested(call'[Main].req) ) =>
       /\ made'.cacheCalls = made.cacheCalls
       /\ savings'.hitCount = savings.hitCount
       /\ savings'.missCount = savings.missCount
       /\ cacheMap' = cacheMap]_vars
\* a streaming create has returned its stream while the cache holds a response under
\* the request's key, no cache method called and no hit or miss counted
C27_Witness ==
  /\ lastCall[Main].outcome = "returned" /\ StreamRequested(lastCall[Main].req)
  /\ cacheBackend # "none" /\ CacheMakeKey(lastCall[Main].req) \in DOMAIN cacheMap
  /\ made.cacheCalls = 0 /\ savings.hitCount = 0 /\ savings.missCount = 0
  /\ stream.pc = "ready"


\* C28: a record for a model without pricing raises UnknownModelError and leaves
\* summary, breakdown and savings as they were; no budget check is made for it: the
\* error is UnknownModelError also when the current scope is over one of its limits
C28_UnpricedRecordTouchesNothing ==
  [][\A c \in Chains :
       (exc[c] = NoExc /\ exc'[c] = UnknownModelError) =>
         /\ summary' = summary
         /\ breakdown' = breakdown
         /\ savings' = savings
         /\ made' = made]_vars
\* a record for a model without pricing has raised UnknownModelError inside a scope
\* that is over its limit, after records that counted
C28_Witness ==
  /\ exc[Main] = UnknownModelError
  /\ summary.calls >= 1 /\ DOMAIN breakdown # {}
  /\ alsCurrent # Undefined
  /\ checkLimits(scopes[alsCurrent], summary) # NoExc


\* the chain is inside an inner run nested in the run of another scope
Nested(c) == Len(stack[c]) = 2 /\ stack[c][1].scope # stack[c][2].scope
\* the scopes of the runs around the innermost one
Enclosing(c) == {stack[c][i].scope : i \in 1..(Len(stack[c]) - 1)} \ {Top(c).scope}
\* a step puts a limit error into a chain that had no failure
LimitRaised(c) == exc[c] = NoExc /\ exc'[c].kind \in LimitKinds

\* C30: while an inner scope is current a record checks that scope only: a record that
\* leaves an enclosing scope over its limit and the inner scope within its own raises
\* nothing, and neither does the check at the end of the inner run; every limit error
\* raised inside a run is the error of the scope current at that step, raised by a
\* record or by the check at the end of that scope's run, so the outer breach is raised
\* only once the outer scope is current again
C30_OnlyInnermostChecked ==
  [][/\ (/\ stack[Main] # <<>> /\ exc[Main] = NoExc
         /\ Recorded \/ RunSettles(Main)
         /\ \E o \in Enclosing(Main) : Over(o, usageState')
         /\ ~Over(Top(Main).scope, usageState')) =>
           exc'[Main] = NoExc
     /\ (LimitRaised(Main) /\ stack[Main] # <<>>) =>
           /\ alsCurrent = Top(Main).scope
           /\ Recorded \/ (RunSettles(Main) /\ Top(Main).phase = "returned")
           /\ exc'[Main] = checkLimits(scopes[Top(Main).scope], usageState')]_vars
\* inside the inner run, records made and none failed, the outer scope is over its limit
\* and the inner one within its own
C30_Witness ==
  /\ Nested(Main) /\ Top(Main).phase = "body" /\ alsCurrent = stack[Main][2].scope
  /\ exc[Main] = NoExc /\ ~made.raised /\ made.calls >= 1
  /\ scopes[stack[Main][1].scope].initial.calls = 0
  /\ Over(stack[Main][1].scope, usageState)
  /\ ~Over(stack[Main][2].scope, usageState)


\* the operations in progress in the processes that share the directory
SetsInFlight ==
  {p \in DiskProcesses :
     IF p = diskProcs.running THEN diskOp.name = "set" ELSE diskProcs.parked[p].name = "set"}

\* C29: processes calling set concurrently on one directory with maxEntries = N, no
\* TTL, no filesystem call failing except on a file a peer deleted: once every set has
\* returned the directory holds at most N cache files
C29_SharedDirectoryWithinBound ==
  SetsInFlight = {} => Cardinality(DiskPresent) <= diskOpts.maxEntries.n
\* two processes are inside set at once and the directory holds two files more than N
C29_Witness ==
  /\ SetsInFlight = DiskProcesses
  /\ Cardinality(DiskPresent) = diskOpts.maxEntries.n + 2

\* C31: a record by any chain, inside or outside any scope, raises the delta of every
\* constructed scope by the event's tokens and by one call; the check a record makes
\* inside a run and the check at the end of a run fail exactly when that delta, which
\* includes the sibling chains' records, is above a limit
C31_ScopeCountsEveryChain ==
  [][/\ \A c \in Chains : (Recorded /\ turn = c) =>
          \A s \in DOMAIN scopes :
            /\ scopes'[s] = scopes[s]
            /\ DeltaTokens(s, usageState') =
                 DeltaTokens(s, usageState) + (made'.tokens - made.tokens)
            /\ currentUsage(scopes[s], usageState').calls =
                 currentUsage(scopes[s], usageState).calls + 1
     /\ \A d \in Chains : (Recorded /\ turn = d /\ stack[d] # <<>>) =>
          (exc'[d].kind \in LimitKinds <=> Over(Top(d).scope, usageState'))
     /\ \A d \in Chains : (stack[d] # <<>> /\ RunSettles(d) /\ exc[d] = NoExc) =>
          (lastRun'[d].err.kind \in LimitKinds <=> Over(Top(d).scope, usageState))]_vars

\* the end-of-run check of chain d's scope has failed although only a sibling chain,
\* which is outside every scope, has recorded
C31_Witness ==
  \E c \in Chains, d \in Chains :
    /\ c # d /\ made.callers = {c}
    /\ stack[c] = <<>> /\ base[c] = Undefined
    /\ lastRun[d].checked /\ lastRun[d].outcome = "rejected"
    /\ lastRun[d].err.kind \in LimitKinds

\* the provider's entry before a step, zero when the provider has none
EntryBefore(p) == IF p \in DOMAIN breakdown THEN breakdown[p] ELSE ZeroUsage

\* C32: a record that raises CostLimitExceeded or TokenCapExceeded has added its event
\* to summary and to one provider's breakdown entry; the error's current value is the
\* scope's delta with the event included; and no later step other than clear takes
\* anything out of the ledger
C32_FailedRecordStaysCounted ==
  [][/\ (Recorded /\ exc'[Main].kind \in LimitKinds) =>
          LET dt == made'.tokens - made.tokens
              s == alsCurrent
          IN /\ dt > 0
             /\ summary'.calls = summary.calls + 1
             /\ summary'.tokens = summary.tokens + dt
             /\ \E p \in DOMAIN breakdown' :
                  /\ breakdown'[p].calls = EntryBefore(p).calls + 1
                  /\ breakdown'[p].tokens = EntryBefore(p).tokens + dt
                  /\ \A q \in DOMAIN breakdown' \ {p} :
                       q \in DOMAIN breakdown /\ breakdown'[q] = breakdown[q]
             /\ s # Undefined
             /\ exc'[Main].kind = "TokenCapExceeded" =>
                  exc'[Main].current = DeltaTokens(s, summary')
             /\ exc'[Main].kind = "CostLimitExceeded" =>
                  exc'[Main].current = DeltaCost(s, summary')
     /\ (summary' # summary /\ ~Recorded) =>
          (summary' = ZeroUsage /\ breakdown' = <<>>)]_vars

\* the only record made raised a limit error, the caller caught the failure, and the
\* ledger still holds the event
C32_Witness ==
  /\ made.raised /\ made.calls = 1 /\ made.clears = 0
  /\ exc[Main] = NoExc
  /\ lastRun[Main].err.kind = "none"
  /\ summary.calls = 1 /\ summary.tokens = made.tokens
  /\ SumCalls(DOMAIN breakdown) = 1

\* C33: a scope's baseline is the meter's summary at its construction and no later
\* step changes it or the limits, so each run of the scope, the first or a later one,
\* is checked against everything recorded since construction: the check at the end
\* of a run fails exactly when the summary minus that baseline is above a limit
C33_BaselineTakenOnce ==
  [][/\ \A s \in DOMAIN scopes : s \in DOMAIN scopes' /\ scopes'[s] = scopes[s]
     /\ \A s \in DOMAIN scopes' \ DOMAIN scopes : scopes'[s].initial = summary
     /\ (stack[Main] # <<>> /\ RunSettles(Main) /\ exc[Main] = NoExc) =>
          (lastRun'[Main].err.kind \in LimitKinds <=> Over(Top(Main).scope, summary))]_vars

\* the second run of the only scope made is rejected by its end-of-run check although
\* no record raised: every event was recorded before that run began, between cap and
\* run or during the first run
C33_Witness ==
  /\ DOMAIN scopes = {"s1"} /\ runs = 2 /\ stack[Main] = <<>>
  /\ lastRun[Main].scope = "s1" /\ lastRun[Main].checked
  /\ lastRun[Main].outcome = "rejected" /\ lastRun[Main].err.kind \in LimitKinds
  /\ made.calls > 0 /\ ~made.raised

\* create is about to track a response it took from the cache, for a priced model
TracksHit(c) ==
  /\ call[c].phase = "track" /\ call'[c].phase = "idle"
  /\ call[c].fromCache /\ call[c].resp.model \in DOMAIN PRICING_DB

\* C36: tracking a cached response adds one to savings.hitCount, leaves summary and
\* breakdown as they were, and then checks the current scope: when that scope's delta
\* is above a limit the call raises the limit error, carrying the unchanged delta,
\* with the hit already counted; otherwise the call returns
C36_HitCheckedAfterNote ==
  [][TracksHit(Main) =>
        LET cur == Structural(Main) IN
        /\ savings'.hitCount = savings.hitCount + 1
        /\ summary' = summary /\ breakdown' = breakdown
        /\ IF cur # Undefined /\ Over(cur, summary)
           THEN /\ exc'[Main].kind \in LimitKinds
                /\ exc'[Main].current \in {DeltaTokens(cur, summary), DeltaCost(cur, summary)}
                /\ lastCall'[Main].outcome = "raised"
           ELSE /\ exc'[Main] = NoExc
                /\ lastCall'[Main].outcome = "returned"]_vars

\* inside a scope the first call took over its limit, the repeated request was served
\* from the cache and raised the limit error; one paid call, one hit counted
C36_Witness ==
  /\ stack[Main] # <<>>
  /\ lastCall[Main].fromCache /\ lastCall[Main].outcome = "raised"
  /\ lastCall[Main].err.kind \in LimitKinds
  /\ sdkCalls = 1 /\ summary.calls = 1 /\ savings.hitCount = 1
  /\ made.raised

\* create leaves the given phase of its cache path
PhaseEnds(c, phase) == call[c].phase = phase /\ call'[c].phase # phase

\* C35: on a cache miss create notes the miss and calls the SDK, then stores the
\* response, then records it. The step that calls the SDK counts the miss whether or
\* not the SDK fails, and when it fails the call ends with nothing stored under the
\* key and nothing recorded; the store step records nothing; the record step finds the
\* response stored and leaves it stored when it raises (limit exceeded or unknown
\* model); so a later request with that key is served from the cache without an SDK
\* call
C35_MissStepsInOrder ==
  [][/\ PhaseEnds(Main, "miss") =>
          /\ savings'.missCount = savings.missCount + 1
          /\ sdkCalls' = sdkCalls + 1
          /\ cacheMap' = cacheMap /\ summary' = summary /\ breakdown' = breakdown
          /\ IF call'[Main].phase = "idle"
             THEN /\ lastCall'[Main].outcome = "raised"
                  /\ lastCall'[Main].err = SdkError
                  /\ call[Main].key \notin DOMAIN cacheMap'
                  /\ summary'.calls = call[Main].start.calls
             ELSE call'[Main].phase = "set" /\ exc'[Main] = NoExc
     /\ PhaseEnds(Main, "set") =>
          /\ summary' = summary /\ breakdown' = breakdown
          /\ savings' = savings /\ sdkCalls' = sdkCalls
          /\ call'[Main].phase = "track" =>
               (call[Main].key \in DOMAIN cacheMap' /\ cacheMap'[call[Main].key] = call[Main].resp)
     /\ (PhaseEnds(Main, "track") /\ ~call[Main].fromCache /\ cacheBackend # "none") =>
          /\ call[Main].key \in DOMAIN cacheMap /\ cacheMap[call[Main].key] = call[Main].resp
          /\ cacheMap' = cacheMap
          /\ savings' = savings /\ sdkCalls' = sdkCalls
          /\ exc'[Main].kind \in LimitKinds \cup {"UnknownModelError", "none"}
          /\ exc'[Main].kind \in LimitKinds \cup {"none"} => summary'.calls = summary.calls + 1
     /\ (CallEnds(Main) /\ Repeated(Main)) =>
          (lastCall'[Main].fromCache /\ sdkCalls' = call[Main].start.sdkCalls)]_vars

\* with the memory cache: one miss whose SDK call failed left nothing stored, one miss
\* whose record raised UnknownModelError left its response stored, and the repeated
\* request was then served from the cache; nothing was ever recorded
C35_Witness ==
  /\ cacheBackend = "memory"
  /\ sdkCalls = 2 /\ savings.missCount = 2 /\ savings.hitCount = 0
  /\ summary.calls = 0 /\ Cardinality(DOMAIN cacheMap) = 1
  /\ lastCall[Main].fromCache /\ lastCall[Main].err = UnknownModelError

\* C34: create calls of two chains on one client are not coalesced. A get answers
\* from what is stored at that moment only: a call whose key has nothing stored takes
\* the miss path even while a sibling call with the same key is between its SDK call
\* and its set. Every call on the miss path counts a miss and invokes the SDK, is
\* recorded as a paid call when its model has pricing, and its set puts its own
\* response under the key, replacing what a sibling stored there
C34_IdenticalRequestsNotCoalesced ==
  [][\A c \in Chains :
       /\ (PhaseEnds(c, "get") /\ call[c].key \notin DOMAIN cacheMap) =>
            (call'[c].phase = "miss" /\ ~call'[c].fromCache)
       /\ PhaseEnds(c, "miss") =>
            /\ savings'.missCount = savings.missCount + 1
            /\ sdkCalls' = sdkCalls + 1
            /\ call'[c].phase = "set"
       /\ PhaseEnds(c, "set") =>
            /\ call'[c].phase = "track"
            /\ call[c].key \in DOMAIN cacheMap' /\ cacheMap'[call[c].key] = call[c].resp
       /\ (PhaseEnds(c, "track") /\ ~call[c].fromCache
            /\ call[c].resp.model \in DOMAIN PRICING_DB) =>
            /\ summary'.calls = summary.calls + 1
            /\ lastCall'[c].outcome = "returned" /\ lastCall'[c].resp = call[c].resp]_vars

\* two requests with the same key, made by two chains: both returned a response of
\* their own SDK call, two misses and two paid calls were counted, and the key holds
\* the response of the set made last
C34_Witness ==
  /\ \A c \in Chains : lastCall[c].outcome = "returned" /\ ~lastCall[c].fromCache
  /\ CacheMakeKey(lastCall["c1"].req) = CacheMakeKey(lastCall["c2"].req)
  /\ lastCall["c1"].resp # lastCall["c2"].resp
  /\ sdkCalls = 2 /\ savings.missCount = 2 /\ savings.hitCount = 0 /\ summary.calls = 2
  /\ DOMAIN cacheMap = {CacheMakeKey(ReqA)}
  /\ cacheMap[CacheMakeKey(ReqA)] \in {lastCall["c1"].resp, lastCall["c2"].resp}

\* the entries of the Map other than key's, in order
Others(cache, key) == SelectSeq(cache, LAMBDA e : e.key # key)

\* C37: expiry alone removes nothing from a BoundedMemoryCache. Time passing leaves
\* the Map as it is; a get changes no entry but the one of its own key; and a set
\* leaves the other entries in their order, expired or not, minus the least recently
\* used ones it deletes from the front, and it deletes only while the Map, expired
\* entries counted, is larger than maxEntries
C37_ExpiredEntriesStillCount ==
  [][/\ now' # now => bmcCache' = bmcCache
     /\ GetStep => Others(bmcCache', bmcLast'.key) = Others(bmcCache, bmcLast'.key)
     /\ SetStep =>
          LET k == bmcLast'.key
              before == Others(bmcCache, k)
              after == Others(bmcCache', k)
              n == Len(before) - Len(after)
          IN /\ n >= 0
             /\ after = SubSeq(before, n + 1, Len(before))
             /\ n > 0 => Len(bmcCache') >= bmcMaxEntries
             /\ (n = 0 /\ Len(before) > 0 /\ before[1].key # "") =>
                  Len(before) + 1 <= bmcMaxEntries]_vars

\* a set has just evicted an entry that had not expired while an entry that has
\* expired is still stored
C37_Witness ==
  /\ bmcLast.op = "set" /\ bmcTtlMs.given /\ bmcTtlMs.finite
  /\ \E x \in bmcLast.evicted :
       /\ x # bmcLast.key
       /\ now <= bmcHist.setAt[x] + bmcTtlMs.ms
  /\ \E i \in 1..Len(bmcCache) : bmcExpired(bmcCache[i], now)

\* a get of the key, and the value, of the set that returned just before it, in a cache
\* with maxEntries >= 1 and at a time at which no file can have reached the TTL
GetFollowsSet ==
  /\ CallReturns("get")
  /\ diskLast.name = "set" /\ diskLast.key = diskOp.key /\ diskLast.value # NotSerializable
  /\ diskOpts.maxEntries.given /\ diskOpts.maxEntries.n >= 1
  /\ diskOpts.ttlMs.given => (diskOpts.ttlMs.finite /\ now <= diskOpts.ttlMs.ms)

\* C38 as stated: one process, no filesystem call failing: get(k) right after
\* set(k, v), the entry within its TTL, returns v, whatever the mtimes of the files
C38_GetAfterSetReturns ==
  [][GetFollowsSet => (diskLast'.found /\ diskLast'.value = diskLast.value)]_vars

\* a pricingFor of an id that neither the table nor defineModel has registered and
\* whose suffix stripping, over what is registered, finds a base id
FallsBack ==
  /\ pricingHist'.ops = pricingHist.ops + 1 /\ pricingLast'.op = "pricingFor"
  /\ pricingLast'.model \notin DOMAIN pricingHist.registered
  /\ resolveModelPricingKey(pricingHist.registered, pricingLast'.model) # Undefined

\* C39 as stated: pricingFor of a versioned id returns the pricing registered at that
\* moment for the base id it falls back to, whatever pricingFor and defineModel calls
\* came before
C39_VersionedFollowsBase ==
  [][FallsBack =>
       LET baseId == resolveModelPricingKey(pricingHist.registered, pricingLast'.model)
       IN /\ ~pricingLast'.threw
          /\ pricingLast'.price = pricingHist.registered[baseId]]_vars

====
